---- MODULE Spec2Model ----
(***************************************************************************)
(* Model of the parser and type checker of the UVM assembler               *)
(* (Parser::buildAST and Parser::typeCheck with their helpers) and of the  *)
(* instruction definition table INSTR_ASM_DEFS.                            *)
(*                                                                         *)
(* 64-bit unsigned integers are kept at their full width: a value is a     *)
(* tuple of four 16-bit limbs, least significant first, so that every      *)
(* comparison, shift and negation of the code is computed on 64 bits.      *)
(***************************************************************************)
EXTENDS Integers, Sequences, FiniteSets, TLC

(***************************************************************************)
(* 64-bit arithmetic on limbs                                              *)
(***************************************************************************)
LimbBase == 65536

U64(l0, l1, l2, l3) == <<l0, l1, l2, l3>>

U64Zero == <<0, 0, 0, 0>>

\* n * m + d on 64 bits, with the overflow out of bit 63 reported
U64MulAdd(n, m, d) ==
    LET p1 == n[1] * m + d
        p2 == n[2] * m + (p1 \div LimbBase)
        p3 == n[3] * m + (p2 \div LimbBase)
        p4 == n[4] * m + (p3 \div LimbBase)
    IN  [val |-> <<p1 % LimbBase, p2 % LimbBase, p3 % LimbBase, p4 % LimbBase>>,
         over |-> (p4 \div LimbBase) # 0]

\* two's complement negation modulo 2^64
U64Neg(n) ==
    LET c1 == (LimbBase - 1 - n[1]) + 1
        c2 == (LimbBase - 1 - n[2]) + (c1 \div LimbBase)
        c3 == (LimbBase - 1 - n[3]) + (c2 \div LimbBase)
        c4 == (LimbBase - 1 - n[4]) + (c3 \div LimbBase)
    IN  <<c1 % LimbBase, c2 % LimbBase, c3 % LimbBase, c4 % LimbBase>>

\* the sign bit of the value read as int64_t
I64IsNeg(n) == n[4] >= 32768

I64Min == <<0, 0, 0, 32768>>

I64Max == <<65535, 65535, 65535, 32767>>

\* the shift by 16 bits more
U64ShiftedNonZero_wider(n, limbs) == \E i \in (limbs + 2)..4 : n[i] # 0

\* num >> 32 != 0 and num >> 16 != 0
U64ShiftedNonZero(n, limbs) == \E i \in (limbs + 1)..4 : n[i] # 0

\* unsigned comparison n <= m
U64Leq(n, m) ==
    \/ n[4] < m[4]
    \/ n[4] = m[4] /\ n[3] < m[3]
    \/ n[4] = m[4] /\ n[3] = m[3] /\ n[2] < m[2]
    \/ n[4] = m[4] /\ n[3] = m[3] /\ n[2] = m[2] /\ n[1] <= m[1]

(***************************************************************************)
(* Program constants                                                       *)
(***************************************************************************)
UVM_TYPE_I8 == "i8"
UVM_TYPE_I16 == "i16"
UVM_TYPE_I32 == "i32"
UVM_TYPE_I64 == "i64"
UVM_TYPE_F32 == "f32"
UVM_TYPE_F64 == "f64"

IntTypes == {UVM_TYPE_I8, UVM_TYPE_I16, UVM_TYPE_I32, UVM_TYPE_I64}

FloatTypes == {UVM_TYPE_F32, UVM_TYPE_F64}

\* value of a DataType member that no statement has assigned yet
Indeterminate == "indeterminate"

INSTR_FLAG_ENCODE_TYPE == 1

INSTR_FLAG_TYPE_VARIANTS == 2

RO_LAYOUT_NEG == 128

RO_LAYOUT_POS == 0

RO_LAYOUT_IR == 79

RO_LAYOUT_IR_INT == 47

RO_LAYOUT_IR_IR_INT == 31

MaxU8 == <<255, 0, 0, 0>>

MaxU16 == <<65535, 0, 0, 0>>

MaxU32 == <<65535, 65535, 0, 0>>

(***************************************************************************)
(* The outcome of std::abs(INT64_MIN), which is undefined behaviour: the   *)
(* build either wraps to INT64_MIN or saturates.  It is fixed per build    *)
(* and chosen in Init.                                                     *)
(***************************************************************************)
AbsMinOutcomes == {I64Min, I64Max}

VARIABLES
    absMin,      \* the build's result of std::abs(INT64_MIN)
    Tokens,      \* the token stream handed to the Parser
    Cursor,      \* Parser::Cursor
    FileNode,    \* the ASTFileNode the Parser fills
    VarDecls,    \* the variable table
    LabelDefs,   \* the label table
    pc,          \* position of the pipeline driver
    buildResult, \* return value of buildAST
    tcResults,   \* return values of the calls of typeCheck, in order
    tcErrors,    \* diagnostics printed by the last call of typeCheck
    probe        \* argument and result of the pure function under test

vars == <<absMin, Tokens, Cursor, FileNode, VarDecls, LabelDefs, pc,
          buildResult, tcResults, tcErrors, probe>>

(***************************************************************************)
(* getRegisterType                                                         *)
(***************************************************************************)
\* every register taken for an integer register
getRegisterType_allInteger(regId) == "INTEGER"

getRegisterType(regId) ==
    IF regId >= 0 /\ regId <= 20 /\ regId # 4 THEN "INTEGER" ELSE "FLOAT"

(***************************************************************************)
(* checkIntWidth                                                           *)
(***************************************************************************)
\* std::abs(static_cast<int64_t>(num)) converted back to uint64_t
AbsI64(num) ==
    IF I64IsNeg(num)
    THEN IF num = I64Min THEN absMin ELSE U64Neg(num)
    ELSE num

\* the width check that compares the value itself, whatever isSigned
checkIntWidth_unsigned(num, type, isSigned) ==
    CASE type = UVM_TYPE_I8 -> U64Leq(num, MaxU8)
      [] type = UVM_TYPE_I16 -> U64Leq(num, MaxU16)
      [] type = UVM_TYPE_I32 -> U64Leq(num, MaxU32)
      [] type = UVM_TYPE_I64 -> TRUE
      [] OTHER -> FALSE

checkIntWidth(num, type, isSigned) ==
    LET n == IF isSigned THEN AbsI64(num) ELSE num
    IN  CASE type = UVM_TYPE_I8 -> U64Leq(n, MaxU8)
          [] type = UVM_TYPE_I16 -> U64Leq(n, MaxU16)
          [] type = UVM_TYPE_I32 -> U64Leq(n, MaxU32)
          [] type = UVM_TYPE_I64 -> TRUE
          [] OTHER -> FALSE

(***************************************************************************)
(* strToInt: std::stoull(str, 0, base) with base 16 for a 0x prefix.       *)
(* status "ok" is a return of true, "range" the caught std::out_of_range   *)
(* (a return of false), "throw" the std::invalid_argument nothing catches. *)
(***************************************************************************)
DecDigits == <<"0", "1", "2", "3", "4", "5", "6", "7", "8", "9">>

HexLower == <<"a", "b", "c", "d", "e", "f">>

HexUpper == <<"A", "B", "C", "D", "E", "F">>

NoDigit == 99

DigitVal(c) ==
    IF \E i \in 1..10 : DecDigits[i] = c
    THEN (CHOOSE i \in 1..10 : DecDigits[i] = c) - 1
    ELSE IF \E i \in 1..6 : HexLower[i] = c
    THEN (CHOOSE i \in 1..6 : HexLower[i] = c) + 9
    ELSE IF \E i \in 1..6 : HexUpper[i] = c
    THEN (CHOOSE i \in 1..6 : HexUpper[i] = c) + 9
    ELSE NoDigit

IsDigitAt(str, i, base) == i <= Len(str) /\ DigitVal(str[i]) < base

\* one pass of the digit loop of strtoull at index i: st holds the value
\* read so far, whether it has left 64 bits and whether the digits have ended
StoullDigit(st, str, i, base) ==
    IF st.done \/ ~IsDigitAt(str, i, base) THEN [st EXCEPT !.done = TRUE]
    ELSE [val |-> U64MulAdd(st.val, base, DigitVal(str[i])).val,
          over |-> st.over \/ U64MulAdd(st.val, base, DigitVal(str[i])).over,
          done |-> FALSE]

\* the digit loop of strtoull: accumulates while digits of the base follow,
\* four passes in each step
RECURSIVE StoullDigits(_, _, _, _)
StoullDigits(str, i, base, st) ==
    IF st.done THEN st
    ELSE StoullDigits(str, i + 4, base,
             StoullDigit(StoullDigit(StoullDigit(StoullDigit(st, str, i, base),
                                                 str, i + 1, base),
                                     str, i + 2, base),
                         str, i + 3, base))

StoullStart == [val |-> U64Zero, over |-> FALSE, done |-> FALSE]

\* the result of std::stoull once the digits r are read
stoullResult(neg, r) ==
    IF r.over
    THEN [status |-> "range", num |-> U64Zero]
    ELSE [status |-> "ok", num |-> IF neg THEN U64Neg(r.val) ELSE r.val]

\* std::stoull on the digits that start at s2, behind the sign and the prefix
stoullAt(str, base, neg, s2) ==
    IF ~IsDigitAt(str, s2, base)
    THEN [status |-> "throw", num |-> U64Zero]
    ELSE stoullResult(neg, StoullDigits(str, s2, base, StoullStart))

stoull(str, base) ==
    LET neg == Len(str) >= 1 /\ str[1] = "-"
        s1 == IF Len(str) >= 1 /\ str[1] \in {"-", "+"} THEN 2 ELSE 1
        \* strtoull skips a 0x prefix in base 16 when a hex digit follows it
        pre == base = 16 /\ s1 + 1 <= Len(str) /\ str[s1] = "0"
               /\ str[s1 + 1] \in {"x", "X"} /\ IsDigitAt(str, s1 + 2, 16)
    IN  stoullAt(str, base, neg, IF pre THEN s1 + 2 ELSE s1)

strToInt(str) ==
    LET base == IF Len(str) >= 3 /\ str[1] = "0" /\ str[2] = "x"
                THEN 16 ELSE 10
    IN  stoull(str, base)

(***************************************************************************)
(* strToFP and checkFloatWidth.  A double is kept as a sign, its           *)
(* significant decimal digits d1 d2 ... (no leading or trailing zero) and  *)
(* the exponent e of 0.d1d2... * 10^e; zero has no digits.                 *)
(***************************************************************************)
RECURSIVE DigitRun(_, _)
\* index after the run of decimal digits that starts at i
DigitRun(str, i) == IF IsDigitAt(str, i, 10) THEN DigitRun(str, i + 1) ELSE i

RECURSIVE StripLeadingZeros(_)
StripLeadingZeros(ds) ==
    IF ds # <<>> /\ ds[1] = "0" THEN StripLeadingZeros(Tail(ds)) ELSE ds

RECURSIVE StripTrailingZeros(_)
StripTrailingZeros(ds) ==
    IF ds # <<>> /\ ds[Len(ds)] = "0"
    THEN StripTrailingZeros(SubSeq(ds, 1, Len(ds) - 1)) ELSE ds

RECURSIVE DecToNat(_, _, _)
\* value of a short run of decimal digits, saturated at cap
DecToNat(ds, acc, cap) ==
    IF ds = <<>> THEN acc
    ELSE LET v == acc * 10 + DigitVal(ds[1])
         IN  DecToNat(Tail(ds), IF v > cap THEN cap ELSE v, cap)

ExpCap == 100000

\* lexicographic a <= b on digit sequences, the shorter one padded with zeros
RECURSIVE DigitsLeq(_, _)
DigitsLeq(a, b) ==
    IF a = <<>> THEN TRUE
    ELSE IF b = <<>> THEN FALSE
    ELSE IF DigitVal(a[1]) < DigitVal(b[1]) THEN TRUE
    ELSE IF DigitVal(a[1]) > DigitVal(b[1]) THEN FALSE
    ELSE DigitsLeq(Tail(a), Tail(b))

\* FLT_MAX = 340282346638528859811704183484516925440
FLT_MAX_DIGITS == <<"3", "4", "0", "2", "8", "2", "3", "4", "6", "6", "3", "8",
                    "5", "2", "8", "8", "5", "9", "8", "1", "1", "7", "0", "4",
                    "1", "8", "3", "4", "8", "4", "5", "1", "6", "9", "2", "5",
                    "4", "4">>

FLT_MAX_EXP == 39

\* DBL_MAX = 1.7976931348623157e308, DBL_TRUE_MIN = 4.9406564584124654e-324
DBL_MAX_DIGITS == <<"1", "7", "9", "7", "6", "9", "3", "1", "3", "4", "8", "6",
                    "2", "3", "1", "5", "7">>

DBL_MAX_EXP == 309

DBL_MIN_EXP == -323

\* |v| <= 0.digits * 10^exp
MagLeq(v, digits, exp) ==
    \/ v.digits = <<>>
    \/ v.exp < exp
    \/ v.exp = exp /\ DigitsLeq(v.digits, digits)

\* the result of std::stod for the digits all, lead without their leading
\* zeros, and the decimal exponent exp of 0.lead
stodResult(neg, all, lead, exp) ==
    LET digits == StripTrailingZeros(lead)
        v == [neg |-> neg, digits |-> digits,
              exp |-> IF digits = <<>> THEN 0 ELSE exp]
    IN  IF all = <<>> THEN [status |-> "invalid", num |-> v]
        ELSE IF digits # <<>> /\ ~MagLeq(v, DBL_MAX_DIGITS, DBL_MAX_EXP)
        THEN [status |-> "range", num |-> v]
        ELSE IF digits # <<>> /\ exp < DBL_MIN_EXP
        THEN [status |-> "range", num |-> v]
        ELSE [status |-> "ok", num |-> v]

stodDigits(neg, intDs, all, lead, eVal) ==
    stodResult(neg, all, lead, Len(intDs) - (Len(all) - Len(lead)) + eVal)

\* the exponent part that ends at eEnd, when there is one
stodExpValue(str, fEnd, eSign, eStart, eEnd) ==
    LET useE == eEnd > eStart
        eMag == IF useE THEN DecToNat(SubSeq(str, eStart, eEnd - 1), 0, ExpCap)
                ELSE 0
    IN  IF useE /\ eSign /\ str[fEnd + 1] = "-" THEN 0 - eMag ELSE eMag

\* the value of the exponent part that may start at fEnd
stodExp(str, fEnd) ==
    LET hasE == fEnd <= Len(str) /\ str[fEnd] \in {"e", "E"}
        eSign == hasE /\ fEnd + 1 <= Len(str) /\ str[fEnd + 1] \in {"-", "+"}
        eStart == IF eSign THEN fEnd + 2 ELSE fEnd + 1
    IN  IF hasE
        THEN stodExpValue(str, fEnd, eSign, eStart, DigitRun(str, eStart))
        ELSE 0

stodMantissa(neg, intDs, all, eVal) ==
    stodDigits(neg, intDs, all, StripLeadingZeros(all), eVal)

stodFraction(str, neg, s1, iEnd, hasDot, fEnd) ==
    stodMantissa(neg, SubSeq(str, s1, iEnd - 1),
                 SubSeq(str, s1, iEnd - 1)
                     \o (IF hasDot THEN SubSeq(str, iEnd + 1, fEnd - 1) ELSE <<>>),
                 stodExp(str, fEnd))

stodInteger(str, neg, s1, iEnd) ==
    IF iEnd <= Len(str) /\ str[iEnd] = "."
    THEN stodFraction(str, neg, s1, iEnd, TRUE, DigitRun(str, iEnd + 1))
    ELSE stodFraction(str, neg, s1, iEnd, FALSE, iEnd)

\* std::stod(str): "ok", "range" (std::out_of_range) or "invalid"
\* (std::invalid_argument); strToFP catches both and returns false
stod(str) ==
    LET neg == Len(str) >= 1 /\ str[1] = "-"
        s1 == IF Len(str) >= 1 /\ str[1] \in {"-", "+"} THEN 2 ELSE 1
    IN  stodInteger(str, neg, s1, DigitRun(str, s1))

strToFP(str) == stod(str)

\* num <= FLT_MAX and num <= DBL_MAX are comparisons of signed values
checkFloatWidth(num, type) ==
    CASE type = UVM_TYPE_F32 -> num.neg \/ MagLeq(num, FLT_MAX_DIGITS, FLT_MAX_EXP)
      [] type = UVM_TYPE_F64 -> num.neg \/ MagLeq(num, DBL_MAX_DIGITS, DBL_MAX_EXP)
      [] OTHER -> FALSE

(***************************************************************************)
(* Tokens and AST nodes.  A token is [Type, Text, Index, Tag]: Text is the *)
(* source text Src->getSubStr(Index, Size) returns, as a sequence of       *)
(* characters, and Size is its length.  A null pointer is the node Null.   *)
(***************************************************************************)
Null == [Type |-> "NULL"]

NewLabelDef(name) == [Type |-> "LABEL_DEFINITION", Name |-> name]

NewIdentifier(name) == [Type |-> "IDENTIFIER", Name |-> name]

NewInstruction(name, asmDefIndex) ==
    [Type |-> "INSTRUCTION", Name |-> name, ASMDefIndex |-> asmDefIndex,
     Params |-> <<>>, Opcode |-> 0, EncodingFlags |-> 0]

NewASTFloat(num) ==
    [Type |-> "FLOAT_NUMBER", Num |-> num, DataType |-> Indeterminate]

NewASTInt(num, isSigned) ==
    [Type |-> "INTEGER_NUMBER", Num |-> num, IsSigned |-> isSigned,
     DataType |-> Indeterminate]

NewRegisterId(id) == [Type |-> "REGISTER_ID", Id |-> id]

\* Immediate is the union ROInt: U32 is its two limbs, U16 the lower one
NewRegisterOffset ==
    [Type |-> "REGISTER_OFFSET", Layout |-> 0, Base |-> Null, Offset |-> Null,
     Immediate |-> <<0, 0>>, Var |-> Null]

NewTypeInfo(dataType) == [Type |-> "TYPE_INFO", DataType |-> dataType]

NewASTVariable(id, typeInfo, val) ==
    [Type |-> "VARIABLE", Id |-> id, DataType |-> typeInfo, Val |-> val,
     VarDeclIndex |-> 0]

NewASTString(val) == [Type |-> "STRING", Val |-> val]

NewASTSection(name, secType) ==
    [Type |-> "SECTION", Name |-> name, SecType |-> secType, Body |-> <<>>]

NewASTFileNode == [SecStatic |-> Null, SecGlobal |-> Null, SecCode |-> Null]

\* the second byte alone, the bits of the first dropped
ByteOr_second(a, b) == b

\* bitwise or of two bytes
RECURSIVE ByteOr(_, _)
ByteOr(a, b) ==
    IF a = 0 THEN b
    ELSE IF b = 0 THEN a
    ELSE 2 * ByteOr(a \div 2, b \div 2) + (IF a % 2 = 1 \/ b % 2 = 1 THEN 1 ELSE 0)

\* bitwise and of two bytes
RECURSIVE ByteAnd(_, _)
ByteAnd(a, b) ==
    IF a = 0 \/ b = 0 THEN 0
    ELSE 2 * ByteAnd(a \div 2, b \div 2) + (IF a % 2 = 1 /\ b % 2 = 1 THEN 1 ELSE 0)

(***************************************************************************)
(* eatToken and peekToken on a token stream toks with the cursor cur       *)
(***************************************************************************)
\* the cursor increased whatever its value
eatToken_unclamped(toks, cur) ==
    [tok |-> toks[IF cur < Len(toks) THEN cur + 1 ELSE Len(toks)], Cursor |-> cur + 1]

eatToken(toks, cur) ==
    IF cur < Len(toks)
    THEN [tok |-> toks[cur + 1], Cursor |-> cur + 1]
    ELSE [tok |-> toks[Len(toks)], Cursor |-> cur]

peekToken(toks, cur) ==
    IF cur >= Len(toks) THEN toks[Len(toks)] ELSE toks[cur + 1]

(***************************************************************************)
(* Results of the parse functions: status "ok" (return true), "fail"       *)
(* (return false after printTokenError) or "throw" (an exception leaves    *)
(* the function), the cursor reached and the diagnostics printed.          *)
(***************************************************************************)
Diag(msg, tok) == [msg |-> msg, tok |-> tok]

PushParam(instr, node) == [instr EXCEPT !.Params = Append(@, node)]

RORes(status, instr, cur, errs) ==
    [status |-> status, instr |-> instr, Cursor |-> cur, errs |-> errs]

(***************************************************************************)
(* Parser::parseRegOffset                                                  *)
(***************************************************************************)
\* the immediate r of the form [reg +/- imm] is checked and stored
storeImm32(toks, instr, regOff, t, cur, r) ==
    LET msg == "Register offset immediate does not fit into 32-bit value"
    IN  IF r.status = "throw" THEN RORes("throw", instr, cur, <<>>)
        ELSE IF r.status # "ok" THEN RORes("fail", instr, cur, <<Diag(msg, t)>>)
        ELSE IF U64ShiftedNonZero(r.num, 2)
        THEN RORes("fail", instr, cur, <<Diag(msg, t)>>)
        ELSE RORes("ok",
                   PushParam(instr,
                       [regOff EXCEPT !.Immediate = <<r.num[1], r.num[2]>>,
                                      !.Layout = ByteOr(@, RO_LAYOUT_IR_INT)]),
                   eatToken(toks, cur).Cursor, <<>>)

\* the form [reg +/- imm]: t is the INTEGER_NUMBER token
parseRegOffsetImm32(toks, instr, regOff, t, cur) ==
    IF peekToken(toks, cur).Type # "RIGHT_SQUARE_BRACKET"
    THEN RORes("fail", instr, cur,
               <<Diag("Expected closing bracket after immediate offset inside register offset ]", t)>>)
    ELSE storeImm32(toks, instr, regOff, t, cur, strToInt(t.Text))

\* the immediate r of the form [reg +/- reg * imm], the token e2, is checked
\* and stored; e3 is the token behind it
storeImm16(instr, ro, e2, r, e3) ==
    LET msg == "Register offset immediate does not fit into 16-bit value"
    IN  IF r.status = "throw" THEN RORes("throw", instr, e2.Cursor, <<>>)
        ELSE IF r.status # "ok"
        THEN RORes("fail", instr, e2.Cursor, <<Diag(msg, e2.tok)>>)
        ELSE IF U64ShiftedNonZero(r.num, 1)
        THEN RORes("fail", instr, e2.Cursor, <<Diag(msg, e2.tok)>>)
        ELSE IF e3.tok.Type # "RIGHT_SQUARE_BRACKET"
        THEN RORes("fail", instr, e3.Cursor,
                   <<Diag("Expectd closing bracket after factor", e3.tok)>>)
        ELSE RORes("ok",
                   PushParam(instr,
                       [ro EXCEPT !.Immediate = <<r.num[1], @[2]>>,
                                  !.Layout = ByteOr(@, RO_LAYOUT_IR_IR_INT)]),
                   e3.Cursor, <<>>)

\* the token e2 behind the * is taken as the immediate
parseImm16(toks, instr, ro, e2) ==
    storeImm16(instr, ro, e2, strToInt(e2.tok.Text), eatToken(toks, e2.Cursor))

\* e1 is the token behind the offset register
parseFactor(toks, instr, ro, e1) ==
    IF e1.tok.Type # "ASTERISK"
    THEN RORes("fail", instr, e1.Cursor,
               <<Diag("Expected * after offset inside register offset", e1.tok)>>)
    ELSE parseImm16(toks, instr, ro, eatToken(toks, e1.Cursor))

\* the form [reg +/- reg * imm]: t is the token of the offset register
parseRegOffsetImm16(toks, instr, regOff, t, cur) ==
    IF getRegisterType(t.Tag) # "INTEGER"
    THEN RORes("fail", instr, cur,
               <<Diag("Expected integer register as offset", t)>>)
    ELSE parseFactor(toks, instr, [regOff EXCEPT !.Offset = NewRegisterId(t.Tag)],
                     eatToken(toks, cur))

parseRegOffset(toks, instr, cur) ==
    LET regOff == NewRegisterOffset
        e1 == eatToken(toks, cur)
        t1 == e1.tok
        e2 == eatToken(toks, e1.Cursor)
        t2 == e2.tok
        withBase == [regOff EXCEPT !.Base = NewRegisterId(t1.Tag)]
        signed == [withBase EXCEPT !.Layout =
                      ByteOr(@, IF t2.Type = "PLUS_SIGN" THEN RO_LAYOUT_POS
                                ELSE RO_LAYOUT_NEG)]
        e3 == eatToken(toks, e2.Cursor)
        t3 == e3.tok
    IN  IF t1.Type = "IDENTIFIER"
        THEN IF t2.Type # "RIGHT_SQUARE_BRACKET"
             THEN RORes("fail", instr, e2.Cursor,
                        <<Diag("Expected closing bracket ] after variable reference", t2)>>)
             ELSE RORes("ok",
                        PushParam(instr, [regOff EXCEPT !.Var = NewIdentifier(t1.Text)]),
                        e2.Cursor, <<>>)
        ELSE IF t1.Type # "REGISTER_DEFINITION"
        THEN RORes("fail", instr, e1.Cursor,
                   <<Diag("Expected register in register offset", t1)>>)
        ELSE IF getRegisterType(t1.Tag) # "INTEGER"
        THEN RORes("fail", instr, e1.Cursor,
                   <<Diag("Expected integer register as base", t1)>>)
        ELSE IF t2.Type = "RIGHT_SQUARE_BRACKET"
        THEN RORes("ok", PushParam(instr, [withBase EXCEPT !.Layout = RO_LAYOUT_IR]),
                   e2.Cursor, <<>>)
        ELSE IF t2.Type \notin {"PLUS_SIGN", "MINUS_SIGN"}
        THEN RORes("fail", instr, e2.Cursor,
                   <<Diag("Unexpected token in register offset", t2)>>)
        ELSE IF t3.Type = "INTEGER_NUMBER"
        THEN parseRegOffsetImm32(toks, instr, signed, t3, e3.Cursor)
        ELSE IF t3.Type = "REGISTER_DEFINITION"
        THEN parseRegOffsetImm16(toks, instr, signed, t3, e3.Cursor)
        ELSE RORes("fail", instr, e3.Cursor,
                   <<Diag("Expected register or int number as offset", t3)>>)

(***************************************************************************)
(* Parser::parseStringEscape.  Characters are one-character strings; the   *)
(* bytes 0x00, 0x08 and 0x0B, which TLA+ cannot write, are "<00>", "<08>"  *)
(* and "<0B>".                                                             *)
(***************************************************************************)
Backslash == "\\"

EscapeChars == {"t", "v", "0", "b", "f", "n", "r", "\"", Backslash}

EscapeByte(p) ==
    CASE p = "t" -> "\t"
      [] p = "v" -> "<0B>"
      [] p = "0" -> "<00>"
      [] p = "b" -> "<08>"
      [] p = "f" -> "\f"
      [] p = "n" -> "\n"
      [] p = "r" -> "\r"
      [] p = "\"" -> "\""
      [] p = Backslash -> Backslash

RECURSIVE StringEscapeLoop(_, _, _)
\* cursor is the 0-based index of the code
StringEscapeLoop(inStr, cursor, outStr) ==
    IF ~(cursor < Len(inStr) - 1) THEN outStr
    ELSE LET c == inStr[cursor + 1]
             p == inStr[cursor + 2]
         IN  IF c = Backslash
             THEN IF p \in EscapeChars
                  THEN StringEscapeLoop(inStr, cursor + 2, Append(outStr, EscapeByte(p)))
                  ELSE outStr
             ELSE StringEscapeLoop(inStr, cursor + 1, Append(outStr, c))

parseStringEscape(inStr) ==
    IF Len(inStr) = 2 THEN <<>> ELSE StringEscapeLoop(inStr, 1, <<>>)

(***************************************************************************)
(* Parser::parseSectionVars                                                *)
(***************************************************************************)
SecRes(status, body, cur, errs) ==
    [status |-> status, Body |-> body, Cursor |-> cur, errs |-> errs]

VarValue(status, val, errs) == [status |-> status, val |-> val, errs |-> errs]

\* the integer value of a declaration taken without the width check
parseVarInt_unchecked(typeInfo, isSigned, tok, ri) ==
    IF ri.status = "throw" THEN VarValue("throw", Null, <<>>)
    ELSE IF ri.status # "ok"
    THEN VarValue("fail", Null, <<Diag("Integer does not fit into 64-bit value", tok)>>)
    ELSE VarValue("ok", NewASTInt(ri.num, isSigned), <<>>)

\* the integer value ri of a declaration
parseVarInt(typeInfo, isSigned, tok, ri) ==
    IF ri.status = "throw" THEN VarValue("throw", Null, <<>>)
    ELSE IF ri.status # "ok"
    THEN VarValue("fail", Null, <<Diag("Integer does not fit into 64-bit value", tok)>>)
    ELSE IF ~checkIntWidth(ri.num, typeInfo.DataType, isSigned)
    THEN VarValue("fail", Null,
                  <<Diag("Integer does not fit into given type value", tok)>>)
    ELSE VarValue("ok", NewASTInt(ri.num, isSigned), <<>>)

\* the floating-point value rf of a declaration
parseVarFloat(typeInfo, tok, rf) ==
    IF rf.status # "ok"
    THEN VarValue("fail", Null,
                  <<Diag("Floating-point value does not fit into 64-bit value", tok)>>)
    ELSE IF ~checkFloatWidth(rf.num, typeInfo.DataType)
    THEN VarValue("fail", Null,
                  <<Diag("Floating-point value does not fit into given value", tok)>>)
    ELSE VarValue("ok", NewASTFloat(rf.num), <<>>)

\* the value of a declaration: tok is the token after the optional sign
\* token signToken (Null when there is none)
parseVarValue(typeInfo, signToken, tok) ==
    LET adjacent == signToken.Index + 1 = tok.Index
        tokString == IF signToken # Null /\ adjacent
                     THEN <<signToken.Text[1]>> \o tok.Text ELSE tok.Text
        isSigned == signToken # Null /\ adjacent /\ signToken.Type = "MINUS_SIGN"
    IN  IF tok.Type = "STRING"
        THEN VarValue("ok", NewASTString(parseStringEscape(tok.Text)), <<>>)
        ELSE IF tok.Type \in {"INTEGER_NUMBER", "FLOAT_NUMBER"}
                /\ signToken # Null /\ ~adjacent
        THEN VarValue("fail", Null, <<Diag("Unexpected operator", signToken)>>)
        ELSE IF tok.Type = "INTEGER_NUMBER"
        THEN parseVarInt(typeInfo, isSigned, tok, strToInt(tokString))
        ELSE IF tok.Type = "FLOAT_NUMBER"
        THEN parseVarFloat(typeInfo, tok, strToFP(tokString))
        ELSE VarValue("fail", Null,
                      <<Diag("Expected string, float or integer as variable value", tok)>>)

RECURSIVE VarsLoop(_, _, _, _)
\* the declaration var is parsed; eEol is the token behind its value
VarsLoopEol(toks, body, var, eEol) ==
    IF eEol.tok.Type # "EOL"
    THEN SecRes("fail", body, eEol.Cursor,
                <<Diag("Expected new line after variable declaration", eEol.tok)>>)
    ELSE VarsLoop(toks, eatToken(toks, eEol.Cursor).tok,
                  eatToken(toks, eEol.Cursor).Cursor, Append(body, var))

\* v is the value of the declaration of tok, parsed from the token eVal
VarsLoopValue(toks, tok, body, typeInfo, eVal, v) ==
    IF v.status # "ok" THEN SecRes(v.status, body, eVal.Cursor, v.errs)
    ELSE VarsLoopEol(toks, body,
                     NewASTVariable(NewIdentifier(tok.Text), typeInfo, v.val),
                     eatToken(toks, eVal.Cursor))

VarsLoopSign(toks, tok, body, typeInfo, signToken, eVal) ==
    VarsLoopValue(toks, tok, body, typeInfo, eVal,
                  parseVarValue(typeInfo, signToken, eVal.tok))

\* eVal0 is the token behind the equals sign: a sign or the value
VarsLoopInit(toks, tok, body, typeInfo, eVal0) ==
    VarsLoopSign(toks, tok, body, typeInfo,
                 IF eVal0.tok.Type \in {"PLUS_SIGN", "MINUS_SIGN"}
                 THEN eVal0.tok ELSE Null,
                 IF eVal0.tok.Type \in {"PLUS_SIGN", "MINUS_SIGN"}
                 THEN eatToken(toks, eVal0.Cursor) ELSE eVal0)

VarsLoopEquals(toks, tok, body, typeInfo, eEq) ==
    IF eEq.tok.Type # "EQUALS_SIGN"
    THEN SecRes("fail", body, eEq.Cursor,
                <<Diag("Expected equals sign after type info in variable declaration", eEq.tok)>>)
    ELSE VarsLoopInit(toks, tok, body, typeInfo, eatToken(toks, eEq.Cursor))

VarsLoopType(toks, tok, body, eType) ==
    IF eType.tok.Type # "TYPE_INFO"
    THEN SecRes("fail", body, eType.Cursor,
                <<Diag("Expected type info in variable declaration", eType.tok)>>)
    ELSE VarsLoopEquals(toks, tok, body, NewTypeInfo(eType.tok.Tag),
                        eatToken(toks, eType.Cursor))

VarsLoopColon(toks, tok, body, eColon) ==
    IF eColon.tok.Type # "COLON"
    THEN SecRes("fail", body, eColon.Cursor,
                <<Diag("Expected colon after variable identifier", eColon.tok)>>)
    ELSE VarsLoopType(toks, tok, body, eatToken(toks, eColon.Cursor))

\* the while loop of parseSectionVars: tok is the current token
VarsLoop(toks, tok, cur, body) ==
    IF tok.Type = "RIGHT_CURLY_BRACKET" THEN SecRes("ok", body, cur, <<>>)
    ELSE IF tok.Type # "IDENTIFIER"
    THEN SecRes("fail", body, cur,
                <<Diag("Expected static variable identifier", tok)>>)
    ELSE VarsLoopColon(toks, tok, body, eatToken(toks, cur))

parseSectionVars(toks, cur) ==
    LET e1 == eatToken(toks, cur)
        e2 == IF e1.tok.Type = "EOL" THEN eatToken(toks, e1.Cursor) ELSE e1
    IN  VarsLoop(toks, e2.tok, e2.Cursor, <<>>)

(***************************************************************************)
(* Parser::parseSectionCode.  instr, the instruction being parsed, is the  *)
(* last node of the body.                                                  *)
(***************************************************************************)
\* the integer operand ri
parseParamInt(instr, isSigned, t, cur, ri) ==
    IF ri.status = "throw" THEN RORes("throw", instr, cur, <<>>)
    ELSE IF ri.status # "ok"
    THEN RORes("fail", instr, cur,
               <<Diag("Integer does not fit into 64-bit value", t)>>)
    ELSE RORes("ok", PushParam(instr, NewASTInt(ri.num, isSigned)), cur, <<>>)

\* the floating-point operand rf
parseParamFloat(instr, t, cur, rf) ==
    IF rf.status # "ok"
    THEN RORes("fail", instr, cur,
               <<Diag("Float does not fit into 64-bit value", t)>>)
    ELSE RORes("ok", PushParam(instr, NewASTFloat(rf.num)), cur, <<>>)

\* one operand of the while loop of INSTR_BODY: t is the token after the
\* optional sign token signToken
parseParam(toks, instr, signToken, t, cur) ==
    LET adjacent == signToken.Index + 1 = t.Index
        numStr == IF signToken # Null /\ adjacent
                  THEN <<signToken.Text[1]>> \o t.Text ELSE t.Text
        isSigned == signToken # Null /\ adjacent /\ signToken.Type = "MINUS_SIGN"
    IN  IF signToken # Null /\ t.Type \notin {"INTEGER_NUMBER", "FLOAT_NUMBER"}
        THEN RORes("fail", instr, cur, <<Diag("Unexpected operator", signToken)>>)
        ELSE IF t.Type = "IDENTIFIER"
        THEN RORes("ok", PushParam(instr, NewIdentifier(t.Text)), cur, <<>>)
        ELSE IF t.Type = "REGISTER_DEFINITION"
        THEN RORes("ok", PushParam(instr, NewRegisterId(t.Tag)), cur, <<>>)
        ELSE IF t.Type = "LEFT_SQUARE_BRACKET"
        THEN parseRegOffset(toks, instr, cur)
        ELSE IF t.Type \in {"INTEGER_NUMBER", "FLOAT_NUMBER"}
                /\ signToken # Null /\ ~adjacent
        THEN RORes("fail", instr, cur, <<Diag("Unexpected operator", signToken)>>)
        ELSE IF t.Type = "INTEGER_NUMBER"
        THEN parseParamInt(instr, isSigned, t, cur, strToInt(numStr))
        ELSE IF t.Type = "FLOAT_NUMBER"
        THEN parseParamFloat(instr, t, cur, strToFP(numStr))
        ELSE RORes("fail", instr, cur, <<Diag("Expected parameter", t)>>)

RECURSIVE ParamLoop(_, _, _, _)
\* eSep is the token behind the operand whose result is r
ParamLoopSep(toks, r, eSep) ==
    IF eSep.tok.Type = "COMMA"
    THEN ParamLoop(toks, r.instr, eatToken(toks, eSep.Cursor).tok,
                   eatToken(toks, eSep.Cursor).Cursor)
    ELSE IF eSep.tok.Type = "EOL"
    THEN RORes("ok", r.instr, eSep.Cursor, <<>>)
    ELSE ParamLoop(toks, r.instr, eSep.tok, eSep.Cursor)

\* r is the result of parsing one operand
ParamLoopParam(toks, r) ==
    IF r.status # "ok" THEN r
    ELSE ParamLoopSep(toks, r, eatToken(toks, r.Cursor))

\* while (!endOfParamList): t is the current token
ParamLoop(toks, instr, t, cur) ==
    LET hasSign == t.Type \in {"PLUS_SIGN", "MINUS_SIGN"}
        eSign == eatToken(toks, cur)
        signToken == IF hasSign THEN t ELSE Null
        t1 == IF hasSign THEN eSign.tok ELSE t
        cur1 == IF hasSign THEN eSign.Cursor ELSE cur
    IN  ParamLoopParam(toks, parseParam(toks, instr, signToken, t1, cur1))

\* case ParseState::INSTR_BODY: t is the token the loop head has eaten
parseInstrBody(toks, instr, t, cur) ==
    LET isType == t.Type = "TYPE_INFO"
        eNext == eatToken(toks, cur)
        instr1 == IF isType THEN PushParam(instr, NewTypeInfo(t.Tag)) ELSE instr
        t1 == IF isType THEN eNext.tok ELSE t
        cur1 == IF isType THEN eNext.Cursor ELSE cur
    IN  IF isType /\ t1.Type = "EOL"
        THEN RORes("ok", instr1, cur1, <<>>)
        ELSE ParamLoop(toks, instr1, t1, cur1)

ReplaceLast(body, node) == [body EXCEPT ![Len(body)] = node]

RECURSIVE CodeLoop(_, _, _, _)
\* ib is the result of INSTR_BODY for the last node of the body
CodeLoopBody(toks, body, ib) ==
    IF ib.status # "ok"
    THEN SecRes(ib.status, ReplaceLast(body, ib.instr), ib.Cursor, ib.errs)
    ELSE CodeLoop(toks, "GLOBAL_SCOPE", ib.Cursor, ReplaceLast(body, ib.instr))

\* case ParseState::GLOBAL_SCOPE: e1 is the first token that is no EOL and
\* peek the token behind it
CodeLoopGlobal(toks, body, e1, peek) ==
    IF e1.tok.Type \in {"END_OF_FILE", "RIGHT_CURLY_BRACKET"}
    THEN CodeLoop(toks, "END", e1.Cursor, body)
    ELSE IF e1.tok.Type = "INSTRUCTION"
    THEN IF peek.Type = "END_OF_FILE"
         THEN SecRes("fail", Append(body, NewInstruction(e1.tok.Text, e1.tok.Tag)),
                     e1.Cursor,
                     <<Diag("Unexpected end of file after instruction", e1.tok)>>)
         ELSE CodeLoop(toks,
                       IF peek.Type # "EOL" THEN "INSTR_BODY" ELSE "GLOBAL_SCOPE",
                       e1.Cursor, Append(body, NewInstruction(e1.tok.Text, e1.tok.Tag)))
    ELSE IF e1.tok.Type = "LABEL_DEF"
    THEN IF peek.Type # "EOL"
         THEN SecRes("fail", Append(body, NewLabelDef(Tail(e1.tok.Text))), e1.Cursor,
                     <<Diag("Expected new line after label definition", e1.tok)>>)
         ELSE CodeLoop(toks, "GLOBAL_SCOPE", eatToken(toks, e1.Cursor).Cursor,
                       Append(body, NewLabelDef(Tail(e1.tok.Text))))
    ELSE SecRes("fail", body, e1.Cursor,
                <<Diag("Unexpected token in function body", e1.tok)>>)

\* e1 is the token e0 the loop head has eaten, or the one behind an EOL
CodeLoopToken(toks, body, e1) ==
    CodeLoopGlobal(toks, body, e1, peekToken(toks, e1.Cursor))

\* e0 is the token the loop head has eaten
CodeLoopHead(toks, state, body, e0) ==
    IF state = "INSTR_BODY"
    THEN CodeLoopBody(toks, body,
                      parseInstrBody(toks, body[Len(body)], e0.tok, e0.Cursor))
    ELSE CodeLoopToken(toks, body,
                       IF e0.tok.Type = "EOL" THEN eatToken(toks, e0.Cursor) ELSE e0)

\* while (state != ParseState::END)
CodeLoop(toks, state, cur, body) ==
    IF state = "END" THEN SecRes("ok", body, cur, <<>>)
    ELSE CodeLoopHead(toks, state, body, eatToken(toks, cur))

parseSectionCode(toks, cur) == CodeLoop(toks, "GLOBAL_SCOPE", cur, <<>>)

(***************************************************************************)
(* Parser::buildAST                                                        *)
(***************************************************************************)
BuildRes(status, file, cur, errs) ==
    [status |-> status, FileNode |-> file, Cursor |-> cur, errs |-> errs]

SectionWith(secName, type, body) ==
    [NewASTSection(secName, type) EXCEPT !.Body = body]

\* rv is the result of parseSectionVars for the section static
buildStatic(file, secName, rv) ==
    BuildRes(rv.status,
             [file EXCEPT !.SecStatic = SectionWith(secName, "STATIC", rv.Body)],
             rv.Cursor, rv.errs)

\* rv is the result of parseSectionVars for the section global
buildGlobal(file, secName, rv) ==
    BuildRes(rv.status,
             [file EXCEPT !.SecGlobal = SectionWith(secName, "GLOBAL", rv.Body)],
             rv.Cursor, rv.errs)

\* rc is the result of parseSectionCode
buildCode(file, secName, rc) ==
    BuildRes(rc.status,
             [file EXCEPT !.SecCode = SectionWith(secName, "CODE", rc.Body)],
             rc.Cursor, rc.errs)

\* the branch of one section: secToken names it, cur is after the {
buildSection(toks, file, secToken, cur) ==
    LET secName == secToken.Text
    IN  IF secName = <<"s", "t", "a", "t", "i", "c">>
        THEN IF file.SecStatic # Null
             THEN BuildRes("fail", file, cur,
                           <<Diag("Section 'static' already defined", secToken)>>)
             ELSE buildStatic(file, secName, parseSectionVars(toks, cur))
        ELSE IF secName = <<"g", "l", "o", "b", "a", "l">>
        THEN IF file.SecGlobal # Null
             THEN BuildRes("fail", file, cur,
                           <<Diag("Section 'global' already defined", secToken)>>)
             ELSE buildGlobal(file, secName, parseSectionVars(toks, cur))
        ELSE IF secName = <<"c", "o", "d", "e">>
        THEN IF file.SecCode # Null
             THEN BuildRes("fail", file, cur,
                           <<Diag("Section 'code' already defined", secToken)>>)
             ELSE buildCode(file, secName, parseSectionCode(toks, cur))
        ELSE BuildRes("fail", file, cur, <<Diag("Unknown section type", secToken)>>)

RECURSIVE BuildLoop(_, _, _, _)
\* r is the result of the section's branch
BuildLoopSection(toks, r) ==
    IF r.status # "ok" THEN r
    ELSE BuildLoop(toks, r.FileNode, eatToken(toks, r.Cursor).tok,
                   eatToken(toks, r.Cursor).Cursor)

\* eCurly is the token behind the section identifier currentToken
BuildLoopCurly(toks, file, currentToken, eCurly) ==
    IF eCurly.tok.Type # "LEFT_CURLY_BRACKET"
    THEN BuildRes("fail", file, eCurly.Cursor,
                  <<Diag("Expected { after section identifier", eCurly.tok)>>)
    ELSE BuildLoopSection(toks, buildSection(toks, file, currentToken, eCurly.Cursor))

\* while (currentToken->Type != TokenType::END_OF_FILE)
BuildLoop(toks, file, currentToken, cur) ==
    IF currentToken.Type = "END_OF_FILE" THEN BuildRes("ok", file, cur, <<>>)
    ELSE IF currentToken.Type = "EOL"
    THEN BuildLoop(toks, file, eatToken(toks, cur).tok, eatToken(toks, cur).Cursor)
    ELSE IF currentToken.Type # "IDENTIFIER"
    THEN BuildRes("fail", file, cur,
                  <<Diag("Expected section identifier in global scope", currentToken)>>)
    ELSE BuildLoopCurly(toks, file, currentToken, eatToken(toks, cur))

NoCodeSection == [msg |-> "Error: could not find code section", tok |-> Null]

\* the end of buildAST without the check that the code section exists
buildASTResult_noCodeCheck(r) ==
    IF r.status = "throw"
    THEN [r EXCEPT !.status = "throw"] @@ [result |-> FALSE]
    ELSE [r EXCEPT !.status = "returned"] @@ [result |-> r.status = "ok"]

\* r is the state when the loop of buildAST has ended
buildASTResult(r) ==
    IF r.status = "throw"
    THEN [r EXCEPT !.status = "throw"] @@ [result |-> FALSE]
    ELSE IF r.FileNode.SecCode = Null
    THEN [r EXCEPT !.status = "returned", !.errs = Append(@, NoCodeSection)]
         @@ [result |-> FALSE]
    ELSE [r EXCEPT !.status = "returned"] @@ [result |-> r.status = "ok"]

\* result TRUE/FALSE is the return value; status "throw" means that an
\* exception left buildAST and nothing was returned
buildAST(toks, file, cur) ==
    buildASTResult(BuildLoop(toks, file, eatToken(toks, cur).tok,
                             eatToken(toks, cur).Cursor))

(***************************************************************************)
(* The instruction definition table INSTR_ASM_DEFS, indexed by the         *)
(* ASMDefIndex of Asm::INSTR_NAMES plus one.                               *)
(***************************************************************************)
InstrParamList(opcode, flags, params, variants) ==
    [Type |-> "PARAM_LIST", Opcode |-> opcode, Flags |-> flags,
     Params |-> params, OpcodeVariants |-> variants]

TypeVariant(type, opcode) == [Type |-> type, Opcode |-> opcode]

IntVariants(o1, o2, o3, o4) ==
    <<TypeVariant(UVM_TYPE_I8, o1), TypeVariant(UVM_TYPE_I16, o2),
      TypeVariant(UVM_TYPE_I32, o3), TypeVariant(UVM_TYPE_I64, o4)>>

FloatVariants(o1, o2) ==
    <<TypeVariant(UVM_TYPE_F32, o1), TypeVariant(UVM_TYPE_F64, o2)>>

INSTR_ASM_DEFS == <<
    \* 0 nop
    <<InstrParamList(160, 0, <<>>, <<>>)>>,
    \* 1 push
    <<InstrParamList(1, INSTR_FLAG_TYPE_VARIANTS, <<"INT_TYPE", "INT_NUM">>, IntVariants(1, 2, 3, 4)),
      InstrParamList(5, INSTR_FLAG_ENCODE_TYPE, <<"INT_TYPE", "INT_REG">>, <<>>)>>,
    \* 2 pop
    <<InstrParamList(6, INSTR_FLAG_ENCODE_TYPE, <<"INT_TYPE">>, <<>>),
      InstrParamList(7, INSTR_FLAG_ENCODE_TYPE, <<"INT_TYPE", "INT_REG">>, <<>>)>>,
    \* 3 load
    <<InstrParamList(17, INSTR_FLAG_TYPE_VARIANTS, <<"INT_TYPE", "INT_NUM", "INT_REG">>, IntVariants(17, 18, 19, 20)),
      InstrParamList(21, INSTR_FLAG_ENCODE_TYPE, <<"INT_TYPE", "REG_OFFSET", "INT_REG">>, <<>>)>>,
    \* 4 loadf
    <<InstrParamList(22, INSTR_FLAG_TYPE_VARIANTS, <<"FLOAT_TYPE", "FLOAT_NUM", "FLOAT_REG">>, FloatVariants(22, 23)),
      InstrParamList(24, INSTR_FLAG_ENCODE_TYPE, <<"FLOAT_TYPE", "REG_OFFSET", "FLOAT_REG">>, <<>>)>>,
    \* 5 store
    <<InstrParamList(8, INSTR_FLAG_ENCODE_TYPE, <<"INT_TYPE", "INT_REG", "REG_OFFSET">>, <<>>)>>,
    \* 6 storef
    <<InstrParamList(9, INSTR_FLAG_ENCODE_TYPE, <<"FLOAT_TYPE", "FLOAT_REG", "REG_OFFSET">>, <<>>)>>,
    \* 7 copy
    <<InstrParamList(33, INSTR_FLAG_TYPE_VARIANTS, <<"INT_TYPE", "INT_NUM", "REG_OFFSET">>, IntVariants(33, 34, 35, 36)),
      InstrParamList(37, INSTR_FLAG_ENCODE_TYPE, <<"INT_TYPE", "INT_REG", "INT_REG">>, <<>>),
      InstrParamList(38, INSTR_FLAG_ENCODE_TYPE, <<"INT_TYPE", "REG_OFFSET", "REG_OFFSET">>, <<>>)>>,
    \* 8 copyf
    <<InstrParamList(39, INSTR_FLAG_TYPE_VARIANTS, <<"FLOAT_TYPE", "FLOAT_NUM", "REG_OFFSET">>, FloatVariants(39, 40)),
      InstrParamList(41, INSTR_FLAG_ENCODE_TYPE, <<"FLOAT_TYPE", "FLOAT_REG", "FLOAT_REG">>, <<>>),
      InstrParamList(42, INSTR_FLAG_ENCODE_TYPE, <<"FLOAT_TYPE", "REG_OFFSET", "REG_OFFSET">>, <<>>)>>,
    \* 9 exit
    <<InstrParamList(80, 0, <<>>, <<>>)>>,
    \* 10 call
    <<InstrParamList(32, 0, <<"LABEL_ID">>, <<>>)>>,
    \* 11 ret
    <<InstrParamList(48, 0, <<>>, <<>>)>>,
    \* 12 sys
    <<InstrParamList(64, 0, <<"SYS_INT">>, <<>>)>>,
    \* 13 lea
    <<InstrParamList(16, 0, <<"REG_OFFSET", "INT_REG">>, <<>>)>>,
    \* 14 add
    <<InstrParamList(49, INSTR_FLAG_TYPE_VARIANTS, <<"INT_TYPE", "INT_REG", "INT_NUM">>, IntVariants(49, 50, 51, 52)),
      InstrParamList(53, INSTR_FLAG_ENCODE_TYPE, <<"INT_TYPE", "INT_REG", "INT_REG">>, <<>>)>>,
    \* 15 addf
    <<InstrParamList(54, INSTR_FLAG_TYPE_VARIANTS, <<"FLOAT_TYPE", "FLOAT_REG", "FLOAT_NUM">>, FloatVariants(54, 55)),
      InstrParamList(56, INSTR_FLAG_ENCODE_TYPE, <<"FLOAT_TYPE", "FLOAT_REG", "FLOAT_REG">>, <<>>)>>,
    \* 16 sub
    <<InstrParamList(65, INSTR_FLAG_TYPE_VARIANTS, <<"INT_TYPE", "INT_REG", "INT_NUM">>, IntVariants(65, 66, 67, 68)),
      InstrParamList(69, INSTR_FLAG_ENCODE_TYPE, <<"INT_TYPE", "INT_REG", "INT_REG">>, <<>>)>>,
    \* 17 subf
    <<InstrParamList(70, INSTR_FLAG_TYPE_VARIANTS, <<"FLOAT_TYPE", "FLOAT_REG", "FLOAT_NUM">>, FloatVariants(70, 71)),
      InstrParamList(72, INSTR_FLAG_ENCODE_TYPE, <<"FLOAT_TYPE", "FLOAT_REG", "FLOAT_REG">>, <<>>)>>,
    \* 18 mul
    <<InstrParamList(81, INSTR_FLAG_TYPE_VARIANTS, <<"INT_TYPE", "INT_REG", "INT_NUM">>, IntVariants(81, 82, 83, 84)),
      InstrParamList(85, INSTR_FLAG_ENCODE_TYPE, <<"INT_TYPE", "INT_REG", "INT_REG">>, <<>>)>>,
    \* 19 mulf
    <<InstrParamList(86, INSTR_FLAG_TYPE_VARIANTS, <<"FLOAT_TYPE", "FLOAT_REG", "FLOAT_NUM">>, FloatVariants(86, 87)),
      InstrParamList(88, INSTR_FLAG_ENCODE_TYPE, <<"FLOAT_TYPE", "FLOAT_REG", "FLOAT_REG">>, <<>>)>>,
    \* 20 muls
    <<InstrParamList(89, INSTR_FLAG_TYPE_VARIANTS, <<"INT_TYPE", "INT_REG", "INT_NUM">>, IntVariants(89, 90, 91, 92)),
      InstrParamList(93, INSTR_FLAG_ENCODE_TYPE, <<"INT_TYPE", "INT_REG", "INT_REG">>, <<>>)>>,
    \* 21 div
    <<InstrParamList(97, INSTR_FLAG_TYPE_VARIANTS, <<"INT_TYPE", "INT_REG", "INT_NUM">>, IntVariants(97, 98, 99, 100)),
      InstrParamList(101, INSTR_FLAG_ENCODE_TYPE, <<"INT_TYPE", "INT_REG", "INT_REG">>, <<>>)>>,
    \* 22 divf
    <<InstrParamList(102, INSTR_FLAG_TYPE_VARIANTS, <<"FLOAT_TYPE", "FLOAT_REG", "FLOAT_NUM">>, FloatVariants(102, 103)),
      InstrParamList(104, INSTR_FLAG_ENCODE_TYPE, <<"FLOAT_TYPE", "FLOAT_REG", "FLOAT_REG">>, <<>>)>>,
    \* 23 divs
    <<InstrParamList(105, INSTR_FLAG_TYPE_VARIANTS, <<"INT_TYPE", "INT_REG", "INT_NUM">>, IntVariants(105, 106, 107, 108)),
      InstrParamList(109, INSTR_FLAG_ENCODE_TYPE, <<"INT_TYPE", "INT_REG", "INT_REG">>, <<>>)>>,
    \* 24 sqrt
    <<InstrParamList(134, INSTR_FLAG_ENCODE_TYPE, <<"FLOAT_TYPE", "FLOAT_REG">>, <<>>)>>,
    \* 25 mod
    <<InstrParamList(150, INSTR_FLAG_ENCODE_TYPE, <<"INT_TYPE", "INT_REG", "INT_REG">>, <<>>)>>,
    \* 26 and
    <<InstrParamList(117, INSTR_FLAG_ENCODE_TYPE, <<"INT_TYPE", "INT_REG", "INT_REG">>, <<>>)>>,
    \* 27 or
    <<InstrParamList(133, INSTR_FLAG_ENCODE_TYPE, <<"INT_TYPE", "INT_REG", "INT_REG">>, <<>>)>>,
    \* 28 xor
    <<InstrParamList(149, INSTR_FLAG_ENCODE_TYPE, <<"INT_TYPE", "INT_REG", "INT_REG">>, <<>>)>>,
    \* 29 not
    <<InstrParamList(165, INSTR_FLAG_ENCODE_TYPE, <<"INT_TYPE", "INT_REG">>, <<>>)>>,
    \* 30 lsh
    <<InstrParamList(118, 0, <<"INT_REG", "INT_REG">>, <<>>)>>,
    \* 31 rsh
    <<InstrParamList(119, 0, <<"INT_REG", "INT_REG">>, <<>>)>>,
    \* 32 srsh
    <<InstrParamList(120, 0, <<"INT_REG", "INT_REG">>, <<>>)>>,
    \* 33 b2l
    <<InstrParamList(177, 0, <<"INT_REG">>, <<>>)>>,
    \* 34 s2l
    <<InstrParamList(178, 0, <<"INT_REG">>, <<>>)>>,
    \* 35 i2l
    <<InstrParamList(179, 0, <<"INT_REG">>, <<>>)>>,
    \* 36 b2sl
    <<InstrParamList(193, 0, <<"INT_REG">>, <<>>)>>,
    \* 37 s2sl
    <<InstrParamList(194, 0, <<"INT_REG">>, <<>>)>>,
    \* 38 i2sl
    <<InstrParamList(195, 0, <<"INT_REG">>, <<>>)>>,
    \* 39 f2d
    <<InstrParamList(180, 0, <<"FLOAT_REG">>, <<>>)>>,
    \* 40 d2f
    <<InstrParamList(196, 0, <<"FLOAT_REG">>, <<>>)>>,
    \* 41 i2f
    <<InstrParamList(181, 0, <<"INT_REG", "FLOAT_REG">>, <<>>)>>,
    \* 42 i2d
    <<InstrParamList(197, 0, <<"INT_REG", "FLOAT_REG">>, <<>>)>>,
    \* 43 f2i
    <<InstrParamList(182, 0, <<"FLOAT_REG", "INT_REG">>, <<>>)>>,
    \* 44 d2i
    <<InstrParamList(198, 0, <<"FLOAT_REG", "INT_REG">>, <<>>)>>,
    \* 45 cmp
    <<InstrParamList(209, INSTR_FLAG_ENCODE_TYPE, <<"INT_TYPE", "INT_REG", "INT_REG">>, <<>>)>>,
    \* 46 cmpf
    <<InstrParamList(213, INSTR_FLAG_ENCODE_TYPE, <<"FLOAT_TYPE", "FLOAT_REG", "FLOAT_REG">>, <<>>)>>,
    \* 47 jmp
    <<InstrParamList(225, 0, <<"LABEL_ID">>, <<>>)>>,
    \* 48 je
    <<InstrParamList(226, 0, <<"LABEL_ID">>, <<>>)>>,
    \* 49 jne
    <<InstrParamList(227, 0, <<"LABEL_ID">>, <<>>)>>,
    \* 50 jgt
    <<InstrParamList(228, 0, <<"LABEL_ID">>, <<>>)>>,
    \* 51 jlt
    <<InstrParamList(229, 0, <<"LABEL_ID">>, <<>>)>>,
    \* 52 jge
    <<InstrParamList(230, 0, <<"LABEL_ID">>, <<>>)>>,
    \* 53 jle
    <<InstrParamList(231, 0, <<"LABEL_ID">>, <<>>)>>
>>

(***************************************************************************)
(* The trie of InstrDefNode built from INSTR_ASM_DEFS.  The node reached   *)
(* from the root of a mnemonic along the categories of prefix is the pair  *)
(* of the ASMDefIndex and prefix; its Children are the distinct next       *)
(* categories of the signatures that start with prefix, and its ParamList  *)
(* is the signature whose parameters are exactly prefix.                   *)
(***************************************************************************)
Reversed(q) == [i \in 1..Len(q) |-> q[Len(q) + 1 - i]]

\* the signatures of a mnemonic in the order the trie is built from them:
\* the order of the table, or the opposite one when the call under test
\* asks for it
SigsOf(asmDefIndex) ==
    IF probe.fn = "typeCheckInstrParams" /\ probe.order = "reversed"
    THEN Reversed(INSTR_ASM_DEFS[asmDefIndex + 1])
    ELSE INSTR_ASM_DEFS[asmDefIndex + 1]

HasPrefix(params, prefix) ==
    Len(params) >= Len(prefix) /\ SubSeq(params, 1, Len(prefix)) = prefix

RECURSIVE ChildTypes(_, _, _)
ChildTypes(sigs, prefix, acc) ==
    IF sigs = <<>> THEN acc
    ELSE LET ps == sigs[1].Params
             next == ps[Len(prefix) + 1]
             isNew == HasPrefix(ps, prefix) /\ Len(ps) > Len(prefix)
                      /\ \A i \in 1..Len(acc) : acc[i] # next
         IN  ChildTypes(Tail(sigs), prefix, IF isNew THEN Append(acc, next) ELSE acc)

Children(asmDefIndex, prefix) == ChildTypes(SigsOf(asmDefIndex), prefix, <<>>)

\* the signature of sigs whose parameters are exactly prefix
ParamListOf(sigs, prefix) ==
    IF \E i \in 1..Len(sigs) : sigs[i].Params = prefix
    THEN sigs[CHOOSE i \in 1..Len(sigs) : sigs[i].Params = prefix]
    ELSE Null

NodeParamList(asmDefIndex, prefix) == ParamListOf(SigsOf(asmDefIndex), prefix)

(***************************************************************************)
(* Parser::typeCheckInstrParams                                            *)
(***************************************************************************)
TCDiag(msg, node) == [msg |-> msg, node |-> node]

\* the literal tagged I64 whatever the TypeInfo
TagNum_i64(num, type) == [num EXCEPT !.DataType = UVM_TYPE_I64]

\* num->DataType = type->DataType
TagNum(num, type) == [num EXCEPT !.DataType = type.DataType]

\* one case of the switch over currentNode->Children[n].Type.  st holds the
\* operand astNode (param), type, nextNode (the category of the child taken,
\* "" for nullptr), labelRefs, error, the diagnostics and fault, which is set
\* when type is dereferenced while it is nullptr
MatchChild(st, child) ==
    LET a == st.param
        asNum == TagNum(a, st.type)
        asSys == [a EXCEPT !.DataType = UVM_TYPE_I8]
        Say(msg) == [st EXCEPT !.errs = Append(@, TCDiag(msg, a))]
    IN  CASE child = "INT_TYPE" ->
               IF a.Type # "TYPE_INFO" THEN st
               ELSE IF a.DataType \notin IntTypes
               THEN Say("Expected int type found float type")
               ELSE [st EXCEPT !.type = a, !.nextNode = child]
          [] child = "FLOAT_TYPE" ->
               IF a.Type # "TYPE_INFO" THEN st
               ELSE IF a.DataType \notin FloatTypes
               THEN Say("Expected float type found int type")
               ELSE [st EXCEPT !.type = a, !.nextNode = child]
          [] child = "LABEL_ID" ->
               IF a.Type # "IDENTIFIER" THEN st
               ELSE [st EXCEPT !.labelRefs = Append(@, a), !.nextNode = child]
          [] child = "INT_REG" ->
               IF a.Type # "REGISTER_ID" THEN st
               ELSE IF getRegisterType(a.Id) # "INTEGER"
               THEN Say("Expected integer register")
               ELSE [st EXCEPT !.nextNode = child]
          [] child = "FLOAT_REG" ->
               IF a.Type # "REGISTER_ID" THEN st
               ELSE IF getRegisterType(a.Id) # "FLOAT"
               THEN Say("Expected float register")
               ELSE [st EXCEPT !.nextNode = child]
          [] child = "REG_OFFSET" ->
               IF a.Type # "REGISTER_OFFSET" THEN st
               ELSE [st EXCEPT !.nextNode = child]
          [] child = "INT_NUM" ->
               IF a.Type # "INTEGER_NUMBER" THEN st
               ELSE IF st.type = Null THEN [st EXCEPT !.fault = TRUE]
               ELSE IF ~checkIntWidth(asNum.Num, asNum.DataType, asNum.IsSigned)
               THEN [st EXCEPT !.param = asNum, !.error = TRUE, !.nextNode = child,
                               !.errs = Append(@, TCDiag("Integer does not fit into given type", asNum))]
               ELSE [st EXCEPT !.param = asNum, !.nextNode = child]
          [] child = "FLOAT_NUM" ->
               IF a.Type # "FLOAT_NUMBER" THEN st
               ELSE IF st.type = Null THEN [st EXCEPT !.fault = TRUE]
               ELSE IF ~checkFloatWidth(asNum.Num, asNum.DataType)
               THEN [st EXCEPT !.param = asNum, !.error = TRUE, !.nextNode = child,
                               !.errs = Append(@, TCDiag("Float does not fit into given type", asNum))]
               ELSE [st EXCEPT !.param = asNum, !.nextNode = child]
          [] child = "SYS_INT" ->
               IF a.Type # "INTEGER_NUMBER" THEN st
               ELSE [st EXCEPT !.param = asSys, !.nextNode = child]
          [] OTHER -> st

\* a variant that tests the last child only
ChildrenLoop_lastOnly(st, children, n) ==
    IF children = <<>> THEN st ELSE MatchChild(st, children[Len(children)])

RECURSIVE ChildrenLoop(_, _, _)
\* for (n = 0; n < currentNode->Children.size(); n++)
ChildrenLoop(st, children, n) ==
    IF n > Len(children) \/ st.fault THEN st
    ELSE ChildrenLoop(MatchChild(st, children[n]), children, n + 1)

\* w after the loop over the children has left st for operand i
ParamsLoopTaken(w, i, st) ==
    [w EXCEPT !.instr.Params[i] = st.param, !.type = st.type,
              !.labelRefs = st.labelRefs, !.error = st.error,
              !.errs = st.errs, !.fault = st.fault]

RECURSIVE ParamsLoop(_, _, _)
\* st is the state after the loop over the children for operand i
ParamsLoopChild(w, asmDefIndex, i, st) ==
    IF st.fault \/ st.nextNode = "" THEN ParamsLoopTaken(w, i, st)
    ELSE ParamsLoop([ParamsLoopTaken(w, i, st) EXCEPT
                        !.prefix = Append(w.prefix, st.nextNode),
                        !.paramList =
                            IF i = Len(w.instr.Params)
                            THEN NodeParamList(asmDefIndex,
                                               Append(w.prefix, st.nextNode))
                            ELSE @],
                    asmDefIndex, i + 1)

\* for (i = 0; i < instr->Params.size(); i++): w holds instr, the prefix of
\* currentNode, paramList, type, labelRefs, error, the diagnostics and fault
ParamsLoop(w, asmDefIndex, i) ==
    IF i > Len(w.instr.Params) THEN w
    ELSE ParamsLoopChild(w, asmDefIndex, i,
             ChildrenLoop([param |-> w.instr.Params[i], type |-> w.type,
                           nextNode |-> "", labelRefs |-> w.labelRefs,
                           error |-> w.error, errs |-> w.errs,
                           fault |-> FALSE],
                          Children(asmDefIndex, w.prefix), 1))

RECURSIVE VariantOpcode(_, _, _)
\* the loop over paramList->OpcodeVariants: the last matching variant wins
VariantOpcode(variants, dataType, opcode) ==
    IF variants = <<>> THEN opcode
    ELSE VariantOpcode(Tail(variants), dataType,
                       IF variants[1].Type = dataType THEN variants[1].Opcode
                       ELSE opcode)

\* the opcode selection that ignores the type variants
SelectOpcode_base(paramList, type) == paramList.Opcode

SelectOpcode(paramList, type) ==
    IF ByteAnd(paramList.Flags, INSTR_FLAG_TYPE_VARIANTS) # 0
    THEN VariantOpcode(paramList.OpcodeVariants, type.DataType, 0)
    ELSE paramList.Opcode

TCIRes(ok, instr, labelRefs, errs, fault) ==
    [ok |-> ok, instr |-> instr, labelRefs |-> labelRefs, errs |-> errs,
     fault |-> fault]

\* an instruction without operands whose root node has the ParamList root
typeCheckNoParams(instr, labelRefs, root) ==
    TCIRes(TRUE, [instr EXCEPT !.Opcode = root.Opcode,
                               !.EncodingFlags = root.Flags],
           labelRefs, <<>>, FALSE)

\* w is the state after the loop over the operands of instr
typeCheckParams(instr, w) ==
    IF w.fault THEN TCIRes(FALSE, w.instr, w.labelRefs, w.errs, TRUE)
    ELSE IF w.paramList = Null
    THEN TCIRes(FALSE, w.instr, w.labelRefs,
                Append(w.errs,
                       TCDiag("Error no matching parameter list found for instruction", instr)),
                FALSE)
    ELSE IF w.error THEN TCIRes(FALSE, w.instr, w.labelRefs, w.errs, FALSE)
    ELSE IF ByteAnd(w.paramList.Flags, INSTR_FLAG_TYPE_VARIANTS) # 0 /\ w.type = Null
    THEN TCIRes(FALSE, w.instr, w.labelRefs, w.errs, TRUE)
    ELSE TCIRes(TRUE, [w.instr EXCEPT !.Opcode = SelectOpcode(w.paramList, w.type),
                                      !.EncodingFlags = w.paramList.Flags],
                w.labelRefs, w.errs, FALSE)

\* a variant that accepts every instruction without operands
typeCheckInstrParams_emptyAccepted(instr, labelRefs) ==
    IF Len(instr.Params) = 0
    THEN TCIRes(TRUE, instr, labelRefs, <<>>, FALSE)
    ELSE typeCheckParams(instr,
             ParamsLoop([instr |-> instr, prefix |-> <<>>, paramList |-> Null,
                         type |-> Null, labelRefs |-> labelRefs,
                         error |-> FALSE, errs |-> <<>>, fault |-> FALSE],
                        instr.ASMDefIndex, 1))

typeCheckInstrParams(instr, labelRefs) ==
    IF Len(instr.Params) = 0
    THEN IF Len(Children(instr.ASMDefIndex, <<>>)) = 0
         THEN typeCheckNoParams(instr, labelRefs,
                                NodeParamList(instr.ASMDefIndex, <<>>))
         ELSE TCIRes(FALSE, instr, labelRefs,
                     <<TCDiag("Expected parameters found none", instr)>>, FALSE)
    ELSE typeCheckParams(instr,
             ParamsLoop([instr |-> instr, prefix |-> <<>>, paramList |-> Null,
                         type |-> Null, labelRefs |-> labelRefs,
                         error |-> FALSE, errs |-> <<>>, fault |-> FALSE],
                        instr.ASMDefIndex, 1))

(***************************************************************************)
(* Parser::typeCheckVars                                                   *)
(***************************************************************************)
SEC_PERM_READ == 128

SEC_PERM_WRITE == 64

SEC_PERM_EXECUTE == 32

SecPermOf(secType) ==
    CASE secType = "STATIC" -> SEC_PERM_READ
      [] secType = "GLOBAL" -> ByteAnd(SEC_PERM_READ, SEC_PERM_WRITE)
      [] secType = "CODE" -> ByteAnd(SEC_PERM_READ, SEC_PERM_EXECUTE)

\* the lookup of a variable that never finds one
VarExists_never(varDecls, name) == FALSE

VarExists(varDecls, name) ==
    \E i \in 1..Len(varDecls) : varDecls[i].Id.Name = name

RECURSIVE VarsCheckLoop(_, _, _)
\* for (ASTNode* node : sec->Body): r holds the section, the variable
\* table, valid and the diagnostics
VarsCheckLoop(r, secType, i) ==
    IF i > Len(r.sec.Body) THEN r
    ELSE LET var == r.sec.Body[i]
             varDecl == [Id |-> var.Id, SecPerm |-> SecPermOf(secType)]
         IN  IF VarExists(r.VarDecls, var.Id.Name)
             THEN VarsCheckLoop([r EXCEPT !.valid = FALSE,
                                          !.errs = Append(@, TCDiag("Variable redefiniton", var))],
                                secType, i + 1)
             ELSE VarsCheckLoop([r EXCEPT !.sec.Body[i].VarDeclIndex = Len(r.VarDecls),
                                          !.VarDecls = Append(@, varDecl)],
                                secType, i + 1)

\* a variant that gives every section a table of its own
typeCheckVars_ownTable(sec, varDecls) ==
    VarsCheckLoop([sec |-> sec, VarDecls |-> <<>>, valid |-> TRUE, errs |-> <<>>],
                  sec.SecType, 1)

typeCheckVars(sec, varDecls) ==
    VarsCheckLoop([sec |-> sec, VarDecls |-> varDecls, valid |-> TRUE, errs |-> <<>>],
                  sec.SecType, 1)

(***************************************************************************)
(* Parser::checkVarRefs                                                    *)
(***************************************************************************)
RECURSIVE VarRefsLoop(_, _, _, _, _)
\* the two nested loops over the instructions and their operands
VarRefsLoop(body, varDecls, i, j, r) ==
    IF i > Len(body) THEN r
    ELSE IF body[i].Type # "INSTRUCTION" \/ j > Len(body[i].Params)
    THEN VarRefsLoop(body, varDecls, i + 1, 1, r)
    ELSE LET p == body[i].Params[j]
             missing == p.Type = "REGISTER_OFFSET" /\ p.Var # Null
                        /\ ~VarExists(varDecls, p.Var.Name)
         IN  VarRefsLoop(body, varDecls, i, j + 1,
                         IF missing
                         THEN [valid |-> FALSE,
                               errs |-> Append(r.errs,
                                   TCDiag("Variable reference does not exist", p.Var))]
                         ELSE r)

\* checkVarRefs that looks at no operand
checkVarRefs_noOperand(file, varDecls) == [valid |-> TRUE, errs |-> <<>>]

checkVarRefs(file, varDecls) ==
    VarRefsLoop(file.SecCode.Body, varDecls, 1, 1, [valid |-> TRUE, errs |-> <<>>])

(***************************************************************************)
(* Parser::typeCheck                                                       *)
(***************************************************************************)
\* the lookup that finds no label
LabelExists_never(labelDefs, name) == FALSE

LabelExists(labelDefs, name) ==
    \E i \in 1..Len(labelDefs) : labelDefs[i].Def.Name = name

MainName == <<"m", "a", "i", "n">>

\* the search for the main entry, satisfied by any label
HasMainEntry_anyLabel(body) ==
    \E i \in 1..Len(body) : body[i].Type = "LABEL_DEFINITION"

\* the loop that looks for the main entry point
HasMainEntry(body) ==
    \E i \in 1..Len(body) :
        body[i].Type = "LABEL_DEFINITION" /\ body[i].Name = MainName

RECURSIVE CodeCheckLoop(_, _)
\* t is the result of typeCheckInstrParams for the instruction i
CodeCheckLoopInstr(r, i, t) ==
    CodeCheckLoop([r EXCEPT !.Body[i] = t.instr, !.labelRefs = t.labelRefs,
                            !.error = @ \/ ~t.ok, !.errs = @ \o t.errs,
                            !.fault = t.fault],
                  i + 1)

\* the label definition node: redef when the table has its name already
CodeCheckLoopLabel(r, i, node, redef) ==
    CodeCheckLoop([r EXCEPT !.LabelDefs = Append(@, [Def |-> node, VAddr |-> 0]),
                            !.error = @ \/ redef,
                            !.errs = IF redef
                                     THEN Append(@, TCDiag("Label is already defined", node))
                                     ELSE @],
                  i + 1)

\* for (const auto& globElem : FileNode->SecCode->Body): r holds the body,
\* the label table, labelRefs, typeCheckError, the diagnostics and fault
CodeCheckLoop(r, i) ==
    IF i > Len(r.Body) \/ r.fault THEN r
    ELSE IF r.Body[i].Type = "LABEL_DEFINITION"
    THEN CodeCheckLoopLabel(r, i, r.Body[i],
                            LabelExists(r.LabelDefs, r.Body[i].Name))
    ELSE IF r.Body[i].Type = "INSTRUCTION"
    THEN CodeCheckLoopInstr(r, i, typeCheckInstrParams(r.Body[i], r.labelRefs))
    ELSE CodeCheckLoop(r, i + 1)

\* the check of the label references, left out
LabelRefsLoop_skipped(labelRefs, labelDefs, i, errs) == errs

RECURSIVE LabelRefsLoop(_, _, _, _)
\* the loop that checks that all label references are resolved
LabelRefsLoop(labelRefs, labelDefs, i, errs) ==
    IF i > Len(labelRefs) THEN errs
    ELSE LabelRefsLoop(labelRefs, labelDefs, i + 1,
                       IF LabelExists(labelDefs, labelRefs[i].Name) THEN errs
                       ELSE Append(errs, TCDiag("Unresolved label", labelRefs[i])))

TCRes(result, file, varDecls, labelDefs, errs, fault) ==
    [result |-> result, FileNode |-> file, VarDecls |-> varDecls,
     LabelDefs |-> labelDefs, errs |-> errs, fault |-> fault]

\* the state of the variable table when a section is absent
NoVars(varDecls) ==
    [sec |-> Null, VarDecls |-> varDecls, valid |-> TRUE, errs |-> <<>>]

WithCodeBody(file, body) == [file EXCEPT !.SecCode.Body = body]

\* refErrs are the unresolved label references and rv is the result of
\* checkVarRefs
typeCheckReturn(file, varDecls, rc, refErrs, rv) ==
    TCRes(~(rc.error \/ refErrs # <<>> \/ ~rv.valid), WithCodeBody(file, rc.Body),
          varDecls, rc.LabelDefs, rc.errs \o refErrs \o rv.errs, FALSE)

\* rc is the state after the loop over the body of the code section
typeCheckCode(file, varDecls, rc) ==
    IF rc.fault
    THEN TCRes(FALSE, WithCodeBody(file, rc.Body), varDecls, rc.LabelDefs,
               rc.errs, TRUE)
    ELSE typeCheckReturn(file, varDecls, rc,
                         LabelRefsLoop(rc.labelRefs, rc.LabelDefs, 1, <<>>),
                         checkVarRefs(WithCodeBody(file, rc.Body), varDecls))

\* rs and rg are the results of typeCheckVars for the sections static and
\* global
typeCheckSections(file, labelDefs, rs, rg) ==
    LET file1 == [file EXCEPT !.SecStatic = rs.sec, !.SecGlobal = rg.sec]
        varErrs == rs.errs \o rg.errs
        body == file.SecCode.Body
    IN  IF file.SecCode = Null
        THEN TCRes(FALSE, file1, rg.VarDecls, labelDefs, varErrs, TRUE)
        ELSE IF Len(body) = 0
        THEN TCRes(FALSE, file1, rg.VarDecls, labelDefs,
                   Append(varErrs, TCDiag("[Type Checker] Missing main label", Null)), FALSE)
        ELSE IF ~HasMainEntry(body)
        THEN TCRes(FALSE, file1, rg.VarDecls, labelDefs,
                   Append(varErrs, TCDiag("[Type Checker] Missing main entry", Null)), FALSE)
        ELSE typeCheckCode(file1, rg.VarDecls,
                 CodeCheckLoop([Body |-> body, LabelDefs |-> labelDefs,
                                labelRefs |-> <<>>,
                                error |-> ~rs.valid \/ ~rg.valid, errs |-> varErrs,
                                fault |-> FALSE], 1))

typeCheckGlobal(file, labelDefs, rs) ==
    typeCheckSections(file, labelDefs, rs,
                      IF file.SecGlobal = Null THEN NoVars(rs.VarDecls)
                      ELSE typeCheckVars(file.SecGlobal, rs.VarDecls))

\* fault is set when typeCheck dereferences a null pointer instead of
\* returning; result is the value returned otherwise
typeCheck(file, varDecls, labelDefs) ==
    typeCheckGlobal(file, labelDefs,
                    IF file.SecStatic = Null THEN NoVars(varDecls)
                    ELSE typeCheckVars(file.SecStatic, varDecls))

(***************************************************************************)
(* Token streams.  The scanner is outside the parser: a raw token carries  *)
(* the number of blanks in front of it (Gap) and Layout gives every token  *)
(* the Index of its first character.  Tag is the register id of            *)
(* ASM_REGISTERS, the UVM type code or the ASMDefIndex of INSTR_NAMES.     *)
(***************************************************************************)
Raw(type, text, tag, gap) == [Type |-> type, Text |-> text, Tag |-> tag, Gap |-> gap]

TkIdent(text, gap) == Raw("IDENTIFIER", text, 0, gap)

TkInstr(text, asmDefIndex, gap) == Raw("INSTRUCTION", text, asmDefIndex, gap)

TkType(text, code, gap) == Raw("TYPE_INFO", text, code, gap)

TkReg(text, id, gap) == Raw("REGISTER_DEFINITION", text, id, gap)

TkInt(text, gap) == Raw("INTEGER_NUMBER", text, 0, gap)

TkFloat(text, gap) == Raw("FLOAT_NUMBER", text, 0, gap)

TkStr(text, gap) == Raw("STRING", text, 0, gap)

TkLabel(text, gap) == Raw("LABEL_DEF", text, 0, gap)

TkLCurly(gap) == Raw("LEFT_CURLY_BRACKET", <<"{">>, 0, gap)

TkRCurly(gap) == Raw("RIGHT_CURLY_BRACKET", <<"}">>, 0, gap)

TkLSquare(gap) == Raw("LEFT_SQUARE_BRACKET", <<"[">>, 0, gap)

TkRSquare(gap) == Raw("RIGHT_SQUARE_BRACKET", <<"]">>, 0, gap)

TkPlus(gap) == Raw("PLUS_SIGN", <<"+">>, 0, gap)

TkMinus(gap) == Raw("MINUS_SIGN", <<"-">>, 0, gap)

TkAsterisk(gap) == Raw("ASTERISK", <<"*">>, 0, gap)

TkColon(gap) == Raw("COLON", <<":">>, 0, gap)

TkComma(gap) == Raw("COMMA", <<",">>, 0, gap)

TkEquals(gap) == Raw("EQUALS_SIGN", <<"=">>, 0, gap)

TkEol(gap) == Raw("EOL", <<"\n">>, 0, gap)

TkEof == Raw("END_OF_FILE", <<>>, 0, 0)

RECURSIVE Layout(_, _, _)
Layout(raw, index, acc) ==
    IF raw = <<>> THEN acc
    ELSE LET r == raw[1]
             tok == [Type |-> r.Type, Text |-> r.Text, Tag |-> r.Tag,
                     Index |-> index + r.Gap]
         IN  Layout(Tail(raw), index + r.Gap + Len(r.Text), Append(acc, tok))

RECURSIVE Concat(_)
Concat(seqs) == IF seqs = <<>> THEN <<>> ELSE seqs[1] \o Concat(Tail(seqs))

\* the lines a code section is made of
CodeLines == <<
    \* @main
    <<TkLabel(<<"@", "m", "a", "i", "n">>, 0), TkEol(0)>>,
    \* @loop
    <<TkLabel(<<"@", "l", "o", "o", "p">>, 0), TkEol(0)>>,
    \* exit
    <<TkInstr(<<"e", "x", "i", "t">>, 9, 0), TkEol(0)>>,
    \* push i32 42
    <<TkInstr(<<"p", "u", "s", "h">>, 1, 0),
      TkType(<<"i", "3", "2">>, UVM_TYPE_I32, 1), TkInt(<<"4", "2">>, 1),
      TkEol(0)>>,
    \* push i8 256
    <<TkInstr(<<"p", "u", "s", "h">>, 1, 0),
      TkType(<<"i", "8">>, UVM_TYPE_I8, 1), TkInt(<<"2", "5", "6">>, 1),
      TkEol(0)>>,
    \* push i16 -65536
    <<TkInstr(<<"p", "u", "s", "h">>, 1, 0),
      TkType(<<"i", "1", "6">>, UVM_TYPE_I16, 1), TkMinus(1),
      TkInt(<<"6", "5", "5", "3", "6">>, 0), TkEol(0)>>,
    \* push i32 -9223372036854775808
    <<TkInstr(<<"p", "u", "s", "h">>, 1, 0),
      TkType(<<"i", "3", "2">>, UVM_TYPE_I32, 1), TkMinus(1),
      TkInt(<<"9", "2", "2", "3", "3", "7", "2", "0", "3", "6", "8", "5", "4", "7", "7", "5", "8", "0", "8">>, 0),
      TkEol(0)>>,
    \* sys 256
    <<TkInstr(<<"s", "y", "s">>, 12, 0), TkInt(<<"2", "5", "6">>, 1),
      TkEol(0)>>,
    \* jmp loop
    <<TkInstr(<<"j", "m", "p">>, 47, 0),
      TkIdent(<<"l", "o", "o", "p">>, 1), TkEol(0)>>,
    \* jmp main
    <<TkInstr(<<"j", "m", "p">>, 47, 0),
      TkIdent(<<"m", "a", "i", "n">>, 1), TkEol(0)>>,
    \* lea [msg], r0
    <<TkInstr(<<"l", "e", "a">>, 13, 0), TkLSquare(1),
      TkIdent(<<"m", "s", "g">>, 0), TkRSquare(0), TkComma(0),
      TkReg(<<"r", "0">>, 5, 1), TkEol(0)>>,
    \* add i32 r0, r1
    <<TkInstr(<<"a", "d", "d">>, 14, 0),
      TkType(<<"i", "3", "2">>, UVM_TYPE_I32, 1),
      TkReg(<<"r", "0">>, 5, 1), TkComma(0), TkReg(<<"r", "1">>, 6, 1),
      TkEol(0)>>,
    \* loadf f32 1.5, f0
    <<TkInstr(<<"l", "o", "a", "d", "f">>, 4, 0),
      TkType(<<"f", "3", "2">>, UVM_TYPE_F32, 1),
      TkFloat(<<"1", ".", "5">>, 1), TkComma(0),
      TkReg(<<"f", "0">>, 22, 1), TkEol(0)>>,
    \* loadf f32 1e39, f0
    <<TkInstr(<<"l", "o", "a", "d", "f">>, 4, 0),
      TkType(<<"f", "3", "2">>, UVM_TYPE_F32, 1),
      TkFloat(<<"1", "e", "3", "9">>, 1), TkComma(0),
      TkReg(<<"f", "0">>, 22, 1), TkEol(0)>>,
    \* push i32
    <<TkInstr(<<"p", "u", "s", "h">>, 1, 0),
      TkType(<<"i", "3", "2">>, UVM_TYPE_I32, 1), TkEol(0)>>
>>

\* the declarations a static or global section is made of
VarLines == <<
    \* msg : i8 = "hi"
    <<TkIdent(<<"m", "s", "g">>, 0), TkColon(1),
      TkType(<<"i", "8">>, UVM_TYPE_I8, 1), TkEquals(1),
      TkStr(<<"\"", "h", "i", "\"">>, 1), TkEol(0)>>,
    \* cnt : i64 = 0
    <<TkIdent(<<"c", "n", "t">>, 0), TkColon(1),
      TkType(<<"i", "6", "4">>, UVM_TYPE_I64, 1), TkEquals(1),
      TkInt(<<"0">>, 1), TkEol(0)>>
>>


(***************************************************************************)
(* The programs the pipeline is run on: some static and global sections,   *)
(* then code sections made of at most MaxLines lines of CodeLines.         *)
(***************************************************************************)
MaxLines == 2

MaxTypeChecks == 2

RECURSIVE SeqsUpTo(_, _)
\* the sequences of at most n elements of 1..k
SeqsUpTo(n, k) ==
    IF n = 0 THEN {<<>>}
    ELSE LET shorter == SeqsUpTo(n - 1, k)
         IN  shorter \cup {Append(q, i) : q \in shorter, i \in 1..k}

Pick(lines, idxs) == Concat([i \in 1..Len(idxs) |-> lines[idxs[i]]])

W_static == <<"s", "t", "a", "t", "i", "c">>

W_global == <<"g", "l", "o", "b", "a", "l">>

W_code == <<"c", "o", "d", "e">>

Section(name, lines) ==
    <<TkIdent(name, 0), TkLCurly(1), TkEol(0)>> \o lines \o <<TkRCurly(0), TkEol(0)>>

\* the variable sections in front of the code section, as pairs of a name
\* and the declarations of VarLines
Preludes == {
    <<>>,
    <<<<W_static, <<1>>>>>>,
    <<<<W_global, <<1>>>>>>,
    <<<<W_static, <<1>>>>, <<W_global, <<2>>>>>>,
    <<<<W_static, <<1>>>>, <<W_global, <<1>>>>>>,
    <<<<W_static, <<1>>>>, <<W_static, <<2>>>>>>
}

PreludeTokens(prelude) ==
    Concat([i \in 1..Len(prelude) |->
               Section(prelude[i][1], Pick(VarLines, prelude[i][2]))])

\* a program with numCode code sections, the first one with the body
Program(prelude, body, numCode) ==
    Layout(PreludeTokens(prelude)
           \o (IF numCode >= 1 THEN Section(W_code, Pick(CodeLines, body)) ELSE <<>>)
           \o (IF numCode >= 2 THEN Section(W_code, <<>>) ELSE <<>>)
           \o <<TkEof>>, 0, <<>>)

Programs ==
    {Program(p, b, 1) : p \in Preludes, b \in SeqsUpTo(MaxLines, Len(CodeLines))}
    \cup {Program(p, <<>>, n) : p \in Preludes, n \in {0, 2}}

(***************************************************************************)
(* The pipeline driver: buildAST, then typeCheck when buildAST succeeded.  *)
(***************************************************************************)
NoProbe == [fn |-> "none"]

InitWith(programs) ==
    /\ absMin \in AbsMinOutcomes
    /\ Tokens \in programs
    /\ Cursor = 0
    /\ FileNode = NewASTFileNode
    /\ VarDecls = <<>>
    /\ LabelDefs = <<>>
    /\ pc = "start"
    /\ buildResult = [status |-> "none", result |-> FALSE, errs |-> <<>>]
    /\ tcResults = <<>>
    /\ tcErrors = <<>>
    /\ probe = NoProbe

Init == InitWith(Programs)

\* the state buildAST leaves when it ends with r
BuildASTReturn(r) ==
    /\ FileNode' = r.FileNode
    /\ Cursor' = r.Cursor
    /\ buildResult' = [status |-> r.status, result |-> r.result, errs |-> r.errs]
    /\ pc' = IF r.status = "throw" THEN "terminated"
             ELSE IF r.result THEN "built" ELSE "failed"

BuildAST ==
    /\ pc = "start"
    /\ BuildASTReturn(buildAST(Tokens, FileNode, Cursor))
    /\ UNCHANGED <<absMin, Tokens, VarDecls, LabelDefs, tcResults, tcErrors, probe>>

\* the state typeCheck leaves when it ends with r
TypeCheckReturn(r) ==
    /\ FileNode' = r.FileNode
    /\ VarDecls' = r.VarDecls
    /\ LabelDefs' = r.LabelDefs
    /\ tcResults' = Append(tcResults, IF r.fault THEN "fault" ELSE
                                      IF r.result THEN "true" ELSE "false")
    /\ tcErrors' = r.errs
    /\ pc' = IF r.fault THEN "terminated" ELSE "checked"

TypeCheck ==
    /\ pc \in {"built", "checked"}
    /\ Len(tcResults) < MaxTypeChecks
    /\ TypeCheckReturn(typeCheck(FileNode, VarDecls, LabelDefs))
    /\ UNCHANGED <<absMin, Tokens, Cursor, buildResult, probe>>

Next == BuildAST \/ TypeCheck

Spec == Init /\ [][Next]_vars

(***************************************************************************)
(* The register offset programs: one load with the operand [bp +/- imm]    *)
(* or [bp +/- r1 * imm].  Each immediate comes with the value its digits   *)
(* denote; over marks a value of 2^64 or more.                             *)
(***************************************************************************)
ImmCases == <<
    \* 0
    [text |-> <<"0">>,
     value |-> U64(0, 0, 0, 0), over |-> FALSE],
    \* 4
    [text |-> <<"4">>,
     value |-> U64(4, 0, 0, 0), over |-> FALSE],
    \* 65535
    [text |-> <<"6", "5", "5", "3", "5">>,
     value |-> U64(65535, 0, 0, 0), over |-> FALSE],
    \* 65536
    [text |-> <<"6", "5", "5", "3", "6">>,
     value |-> U64(0, 1, 0, 0), over |-> FALSE],
    \* 0xFFFF
    [text |-> <<"0", "x", "F", "F", "F", "F">>,
     value |-> U64(65535, 0, 0, 0), over |-> FALSE],
    \* 0x10000
    [text |-> <<"0", "x", "1", "0", "0", "0", "0">>,
     value |-> U64(0, 1, 0, 0), over |-> FALSE],
    \* 4294967295
    [text |-> <<"4", "2", "9", "4", "9", "6", "7", "2", "9", "5">>,
     value |-> U64(65535, 65535, 0, 0), over |-> FALSE],
    \* 4294967296
    [text |-> <<"4", "2", "9", "4", "9", "6", "7", "2", "9", "6">>,
     value |-> U64(0, 0, 1, 0), over |-> FALSE],
    \* 0xFFFFFFFF
    [text |-> <<"0", "x", "F", "F", "F", "F", "F", "F", "F", "F">>,
     value |-> U64(65535, 65535, 0, 0), over |-> FALSE],
    \* 0x100000000
    [text |-> <<"0", "x", "1", "0", "0", "0", "0", "0", "0", "0", "0">>,
     value |-> U64(0, 0, 1, 0), over |-> FALSE],
    \* 18446744073709551615
    [text |-> <<"1", "8", "4", "4", "6", "7", "4", "4", "0", "7", "3", "7", "0", "9", "5", "5", "1", "6", "1", "5">>,
     value |-> U64(65535, 65535, 65535, 65535), over |-> FALSE],
    \* 18446744073709551616 = 2^64
    [text |-> <<"1", "8", "4", "4", "6", "7", "4", "4", "0", "7", "3", "7", "0", "9", "5", "5", "1", "6", "1", "6">>,
     value |-> U64Zero, over |-> TRUE]
>>

ROForms == {"imm32", "imm16"}

ROSigns == {"+", "-"}

ROOperand(form, sign, text) ==
    IF form = "reg"
    THEN <<TkLSquare(1), TkReg(<<"b", "p">>, 3, 0), TkRSquare(0)>>
    ELSE IF form = "var"
    THEN <<TkLSquare(1), TkIdent(<<"m", "s", "g">>, 0), TkRSquare(0)>>
    ELSE <<TkLSquare(1), TkReg(<<"b", "p">>, 3, 0),
           IF sign = "+" THEN TkPlus(1) ELSE TkMinus(1)>>
         \o (IF form = "imm16" THEN <<TkReg(<<"r", "1">>, 6, 1), TkAsterisk(1)>> ELSE <<>>)
         \o <<TkInt(text, 1), TkRSquare(0)>>

ROProgram(form, sign, text) ==
    Layout(Section(W_code,
               CodeLines[1]
               \o <<TkInstr(<<"l", "o", "a", "d">>, 3, 0),
                    TkType(<<"i", "3", "2">>, UVM_TYPE_I32, 1)>>
               \o ROOperand(form, sign, text)
               \o <<TkComma(0), TkReg(<<"r", "0">>, 5, 1), TkEol(0)>>)
           \o <<TkEof>>, 0, <<>>)

InitRO ==
    /\ absMin \in AbsMinOutcomes
    /\ probe \in {[fn |-> "parseRegOffset", form |-> f, sign |-> g, imm |-> i] :
                     f \in ROForms, g \in ROSigns, i \in 1..Len(ImmCases)}
    /\ Tokens = ROProgram(probe.form, probe.sign, ImmCases[probe.imm].text)
    /\ Cursor = 0
    /\ FileNode = NewASTFileNode
    /\ VarDecls = <<>>
    /\ LabelDefs = <<>>
    /\ pc = "start"
    /\ buildResult = [status |-> "none", result |-> FALSE, errs |-> <<>>]
    /\ tcResults = <<>>
    /\ tcErrors = <<>>

SpecRO == InitRO /\ [][Next]_vars

(***************************************************************************)
(* The register offset forms: [bp], [msg], [bp +/- imm] and                *)
(* [bp +/- r1 * imm], one load each.                                       *)
(***************************************************************************)
LayoutProbes ==
    {[fn |-> "parseRegOffsetForm", form |-> f, sign |-> g, imm |-> i] :
         f \in ROForms, g \in ROSigns, i \in 1..Len(ImmCases)}
    \cup {[fn |-> "parseRegOffsetForm", form |-> f, sign |-> "+", imm |-> 1] :
              f \in {"reg", "var"}}

InitLayout ==
    /\ absMin \in AbsMinOutcomes
    /\ probe \in LayoutProbes
    /\ Tokens = ROProgram(probe.form, probe.sign, ImmCases[probe.imm].text)
    /\ Cursor = 0
    /\ FileNode = NewASTFileNode
    /\ VarDecls = <<>>
    /\ LabelDefs = <<>>
    /\ pc = "start"
    /\ buildResult = [status |-> "none", result |-> FALSE, errs |-> <<>>]
    /\ tcResults = <<>>
    /\ tcErrors = <<>>

SpecLayout == InitLayout /\ [][Next]_vars

(***************************************************************************)
(* checkIntWidth applied to the arguments drawn in InitWidth               *)
(***************************************************************************)
ProbeNums == {
    U64(0, 0, 0, 0), U64(1, 0, 0, 0), U64(255, 0, 0, 0), U64(256, 0, 0, 0),
    U64(65535, 0, 0, 0), U64(0, 1, 0, 0), U64(65535, 65535, 0, 0),
    U64(0, 0, 1, 0), I64Max, I64Min,
    U64(65535, 65535, 65535, 65535), U64(65281, 65535, 65535, 65535),
    U64(65280, 65535, 65535, 65535), U64(1, 65535, 65535, 65535),
    U64(0, 65535, 65535, 65535), U64(1, 0, 65535, 65535),
    U64(0, 0, 65535, 65535), U64(65535, 65535, 65534, 65535)
}

InitWidth ==
    /\ absMin \in AbsMinOutcomes
    /\ probe \in {[fn |-> "checkIntWidth", num |-> n, type |-> t, isSigned |-> b,
                   done |-> FALSE, result |-> FALSE] :
                     n \in ProbeNums, t \in IntTypes \cup FloatTypes, b \in BOOLEAN}
    /\ Tokens = Layout(<<TkEof>>, 0, <<>>)
    /\ Cursor = 0
    /\ FileNode = NewASTFileNode
    /\ VarDecls = <<>>
    /\ LabelDefs = <<>>
    /\ pc = "probe"
    /\ buildResult = [status |-> "none", result |-> FALSE, errs |-> <<>>]
    /\ tcResults = <<>>
    /\ tcErrors = <<>>

CheckIntWidth ==
    /\ pc = "probe"
    /\ probe.fn = "checkIntWidth"
    /\ ~probe.done
    /\ probe' = [probe EXCEPT !.done = TRUE,
                              !.result = checkIntWidth(probe.num, probe.type, probe.isSigned)]
    /\ UNCHANGED <<absMin, Tokens, Cursor, FileNode, VarDecls, LabelDefs, pc,
                   buildResult, tcResults, tcErrors>>

NextWidth == CheckIntWidth

SpecWidth == InitWidth /\ [][NextWidth]_vars

(***************************************************************************)
(* The operand and declaration forms: code sections made of an optional    *)
(* @main and at most MaxFormLines lines of FormCodeLines, closed by a      *)
(* right curly bracket or ended by the end of the file, and static         *)
(* sections with one declaration of FormVarLines.                          *)
(***************************************************************************)
FormCodeLines == <<
    \* @main
    <<TkLabel(<<"@", "m", "a", "i", "n">>, 0), TkEol(0)>>,
    \* @loop
    <<TkLabel(<<"@", "l", "o", "o", "p">>, 0), TkEol(0)>>,
    \* exit
    <<TkInstr(<<"e", "x", "i", "t">>, 9, 0), TkEol(0)>>,
    \* push i32, 42
    <<TkInstr(<<"p", "u", "s", "h">>, 1, 0),
      TkType(<<"i", "3", "2">>, UVM_TYPE_I32, 1), TkComma(0),
      TkInt(<<"4", "2">>, 1), TkEol(0)>>,
    \* push i32 - 1
    <<TkInstr(<<"p", "u", "s", "h">>, 1, 0),
      TkType(<<"i", "3", "2">>, UVM_TYPE_I32, 1), TkMinus(1),
      TkInt(<<"1">>, 1), TkEol(0)>>,
    \* push i32 -1
    <<TkInstr(<<"p", "u", "s", "h">>, 1, 0),
      TkType(<<"i", "3", "2">>, UVM_TYPE_I32, 1), TkMinus(1),
      TkInt(<<"1">>, 0), TkEol(0)>>,
    \* push i32 -r0
    <<TkInstr(<<"p", "u", "s", "h">>, 1, 0),
      TkType(<<"i", "3", "2">>, UVM_TYPE_I32, 1), TkMinus(1),
      TkReg(<<"r", "0">>, 5, 0), TkEol(0)>>,
    \* add f32 r0, r1
    <<TkInstr(<<"a", "d", "d">>, 14, 0),
      TkType(<<"f", "3", "2">>, UVM_TYPE_F32, 1),
      TkReg(<<"r", "0">>, 5, 1), TkComma(0), TkReg(<<"r", "1">>, 6, 1),
      TkEol(0)>>,
    \* add i32 f0, r1
    <<TkInstr(<<"a", "d", "d">>, 14, 0),
      TkType(<<"i", "3", "2">>, UVM_TYPE_I32, 1),
      TkReg(<<"f", "0">>, 22, 1), TkComma(0), TkReg(<<"r", "1">>, 6, 1),
      TkEol(0)>>,
    \* add i32 r0, r1
    <<TkInstr(<<"a", "d", "d">>, 14, 0),
      TkType(<<"i", "3", "2">>, UVM_TYPE_I32, 1),
      TkReg(<<"r", "0">>, 5, 1), TkComma(0), TkReg(<<"r", "1">>, 6, 1),
      TkEol(0)>>,
    \* loadf f32 - 1.5, f0
    <<TkInstr(<<"l", "o", "a", "d", "f">>, 4, 0),
      TkType(<<"f", "3", "2">>, UVM_TYPE_F32, 1), TkMinus(1),
      TkFloat(<<"1", ".", "5">>, 1), TkComma(0),
      TkReg(<<"f", "0">>, 22, 1), TkEol(0)>>,
    \* loadf f32 -1.5, f0
    <<TkInstr(<<"l", "o", "a", "d", "f">>, 4, 0),
      TkType(<<"f", "3", "2">>, UVM_TYPE_F32, 1), TkMinus(1),
      TkFloat(<<"1", ".", "5">>, 0), TkComma(0),
      TkReg(<<"f", "0">>, 22, 1), TkEol(0)>>,
    \* add i32 r0 r1
    <<TkInstr(<<"a", "d", "d">>, 14, 0),
      TkType(<<"i", "3", "2">>, UVM_TYPE_I32, 1),
      TkReg(<<"r", "0">>, 5, 1), TkReg(<<"r", "1">>, 6, 1), TkEol(0)>>,
    \* add i32 r0,, r1
    <<TkInstr(<<"a", "d", "d">>, 14, 0),
      TkType(<<"i", "3", "2">>, UVM_TYPE_I32, 1),
      TkReg(<<"r", "0">>, 5, 1), TkComma(0), TkComma(0),
      TkReg(<<"r", "1">>, 6, 1), TkEol(0)>>
>>

FormVarLines == <<
    \* x : i16 = 70000
    <<TkIdent(<<"x">>, 0), TkColon(1),
      TkType(<<"i", "1", "6">>, UVM_TYPE_I16, 1), TkEquals(1),
      TkInt(<<"7", "0", "0", "0", "0">>, 1), TkEol(0)>>,
    \* x : i32 = 70000
    <<TkIdent(<<"x">>, 0), TkColon(1),
      TkType(<<"i", "3", "2">>, UVM_TYPE_I32, 1), TkEquals(1),
      TkInt(<<"7", "0", "0", "0", "0">>, 1), TkEol(0)>>,
    \* x : i32 = -1
    <<TkIdent(<<"x">>, 0), TkColon(1),
      TkType(<<"i", "3", "2">>, UVM_TYPE_I32, 1), TkEquals(1),
      TkMinus(1), TkInt(<<"1">>, 0), TkEol(0)>>,
    \* x : i32 = - 1
    <<TkIdent(<<"x">>, 0), TkColon(1),
      TkType(<<"i", "3", "2">>, UVM_TYPE_I32, 1), TkEquals(1),
      TkMinus(1), TkInt(<<"1">>, 1), TkEol(0)>>,
    \* msg : i8 = -"hi"
    <<TkIdent(<<"m", "s", "g">>, 0), TkColon(1),
      TkType(<<"i", "8">>, UVM_TYPE_I8, 1), TkEquals(1),
      TkMinus(1), TkStr(<<"\"", "h", "i", "\"">>, 0), TkEol(0)>>,
    \* x : i32 = -r0
    <<TkIdent(<<"x">>, 0), TkColon(1),
      TkType(<<"i", "3", "2">>, UVM_TYPE_I32, 1), TkEquals(1),
      TkMinus(1), TkReg(<<"r", "0">>, 5, 0), TkEol(0)>>,
    \* f : f32 = - 1.5
    <<TkIdent(<<"f">>, 0), TkColon(1),
      TkType(<<"f", "3", "2">>, UVM_TYPE_F32, 1), TkEquals(1),
      TkMinus(1), TkFloat(<<"1", ".", "5">>, 1), TkEol(0)>>,
    \* f : f32 = -1.5
    <<TkIdent(<<"f">>, 0), TkColon(1),
      TkType(<<"f", "3", "2">>, UVM_TYPE_F32, 1), TkEquals(1),
      TkMinus(1), TkFloat(<<"1", ".", "5">>, 0), TkEol(0)>>
>>

MaxFormLines == 2

\* a program with the declarations decls in a static section and a code
\* section with the lines body; closed tells whether the code section has
\* its right curly bracket
FormProgram(decls, body, closed) ==
    Layout((IF decls = <<>> THEN <<>>
            ELSE Section(W_static, Pick(FormVarLines, decls)))
           \o <<TkIdent(W_code, 0), TkLCurly(1), TkEol(0)>>
           \o Pick(FormCodeLines, body)
           \o (IF closed THEN <<TkRCurly(0), TkEol(0)>> ELSE <<>>)
           \o <<TkEof>>, 0, <<>>)

FormBodies(n) ==
    {head \o rest : head \in {<<>>, <<1>>},
                    rest \in SeqsUpTo(n, Len(FormCodeLines))}

FormPrograms ==
    {FormProgram(<<>>, b, c) : b \in FormBodies(MaxFormLines), c \in BOOLEAN}
    \cup {FormProgram(<<v>>, b, TRUE) : v \in 1..Len(FormVarLines),
                                        b \in FormBodies(1)}

InitForms == InitWith(FormPrograms)

SpecForms == InitForms /\ [][Next]_vars

(***************************************************************************)
(* Sequences of at most MaxCalls calls of eatToken and peekToken on the    *)
(* token stream of a short program.  probe records the last call: the      *)
(* cursor before it and the token it returned.                             *)
(***************************************************************************)
MaxCalls == 10

CursorStreams == {Program(<<>>, b, 1) : b \in SeqsUpTo(1, 3)}

InitCursor ==
    /\ absMin \in AbsMinOutcomes
    /\ Tokens \in CursorStreams
    /\ Cursor = 0
    /\ FileNode = NewASTFileNode
    /\ VarDecls = <<>>
    /\ LabelDefs = <<>>
    /\ pc = "tokens"
    /\ buildResult = [status |-> "none", result |-> FALSE, errs |-> <<>>]
    /\ tcResults = <<>>
    /\ tcErrors = <<>>
    /\ probe = [fn |-> "cursor", calls |-> 0, last |-> "none", before |-> 0,
                tok |-> Null]

EatToken ==
    /\ pc = "tokens"
    /\ probe.calls < MaxCalls
    /\ Cursor' = eatToken(Tokens, Cursor).Cursor
    /\ probe' = [fn |-> "cursor", calls |-> probe.calls + 1, last |-> "eatToken",
                 before |-> Cursor, tok |-> eatToken(Tokens, Cursor).tok]
    /\ UNCHANGED <<absMin, Tokens, FileNode, VarDecls, LabelDefs, pc, buildResult,
                   tcResults, tcErrors>>

PeekToken ==
    /\ pc = "tokens"
    /\ probe.calls < MaxCalls
    /\ probe' = [fn |-> "cursor", calls |-> probe.calls + 1, last |-> "peekToken",
                 before |-> Cursor, tok |-> peekToken(Tokens, Cursor)]
    /\ UNCHANGED <<absMin, Tokens, Cursor, FileNode, VarDecls, LabelDefs, pc,
                   buildResult, tcResults, tcErrors>>

NextCursor == EatToken \/ PeekToken

SpecCursor == InitCursor /\ [][NextCursor]_vars

(***************************************************************************)
(* typeCheck as a public member function: it can be called on a Parser     *)
(* whatever buildAST returned, and before buildAST was called.             *)
(***************************************************************************)
TypeCheckUnbuilt ==
    /\ pc \in {"start", "failed"}
    /\ Len(tcResults) < MaxTypeChecks
    /\ TypeCheckReturn(typeCheck(FileNode, VarDecls, LabelDefs))
    /\ UNCHANGED <<absMin, Tokens, Cursor, buildResult, probe>>

APIPrograms ==
    {Program(p, b, n) : p \in Preludes, b \in SeqsUpTo(1, Len(CodeLines)), n \in {0, 1}}

InitAPI == InitWith(APIPrograms)

NextAPI == BuildAST \/ TypeCheck \/ TypeCheckUnbuilt

SpecAPI == InitAPI /\ [][NextAPI]_vars

(***************************************************************************)
(* Code sections with blank lines: at most MaxLines of the lines @main,    *)
(* exit and push i32 42, each followed by at most MaxBlank blank lines.    *)
(***************************************************************************)
MaxBlank == 2

BlankLines == <<CodeLines[1], CodeLines[3], CodeLines[4]>>

RECURSIVE Blanks(_)
\* n blank lines
Blanks(n) == IF n = 0 THEN <<>> ELSE <<TkEol(0)>> \o Blanks(n - 1)

\* the lines body, line i followed by blanks[i] - 1 blank lines
BlankProgram(body, blanks) ==
    Layout(<<TkIdent(W_code, 0), TkLCurly(1), TkEol(0)>>
           \o Concat([i \in 1..Len(body) |->
                          BlankLines[body[i]] \o Blanks(blanks[i] - 1)])
           \o <<TkRCurly(0), TkEol(0), TkEof>>, 0, <<>>)

BlankPrograms ==
    {BlankProgram(bk[1], bk[2]) :
        bk \in {x \in SeqsUpTo(MaxLines, Len(BlankLines))
                         \X SeqsUpTo(MaxLines, MaxBlank + 1) : Len(x[1]) = Len(x[2])}}

InitBlank == InitWith(BlankPrograms)

SpecBlank == InitBlank /\ [][Next]_vars

(***************************************************************************)
(* The variable tables: a static and a global section with at most MaxVars *)
(* declarations of VarLines each, so that a name is declared twice in one  *)
(* section or once in each, in front of a code section.                    *)
(***************************************************************************)
MaxVars == 2

VarBodies == {<<1, 3>>, <<1, 11, 3>>}

VarPrograms ==
    {Program(<<<<W_static, s>>, <<W_global, g>>>>, b, 1) :
        s \in SeqsUpTo(MaxVars, Len(VarLines)),
        g \in SeqsUpTo(MaxVars, Len(VarLines)),
        b \in VarBodies}

InitVars == InitWith(VarPrograms)

SpecVars == InitVars /\ [][Next]_vars

(***************************************************************************)
(* The operand counts: code sections made of @main and at most             *)
(* MaxArityLines lines of ArityLines, whose operand lists are signatures,  *)
(* proper prefixes of signatures, signatures with an operand too many, or  *)
(* empty.                                                                  *)
(***************************************************************************)
ArityLines == <<
    \* pop i32
    <<TkInstr(<<"p", "o", "p">>, 2, 0),
      TkType(<<"i", "3", "2">>, UVM_TYPE_I32, 1), TkEol(0)>>,
    \* pop i32 r0
    <<TkInstr(<<"p", "o", "p">>, 2, 0),
      TkType(<<"i", "3", "2">>, UVM_TYPE_I32, 1),
      TkReg(<<"r", "0">>, 5, 1), TkEol(0)>>,
    \* pop i32 r0, r1
    <<TkInstr(<<"p", "o", "p">>, 2, 0),
      TkType(<<"i", "3", "2">>, UVM_TYPE_I32, 1),
      TkReg(<<"r", "0">>, 5, 1), TkComma(0), TkReg(<<"r", "1">>, 6, 1),
      TkEol(0)>>,
    \* pop
    <<TkInstr(<<"p", "o", "p">>, 2, 0), TkEol(0)>>,
    \* push i32
    <<TkInstr(<<"p", "u", "s", "h">>, 1, 0),
      TkType(<<"i", "3", "2">>, UVM_TYPE_I32, 1), TkEol(0)>>,
    \* exit
    <<TkInstr(<<"e", "x", "i", "t">>, 9, 0), TkEol(0)>>,
    \* exit r0
    <<TkInstr(<<"e", "x", "i", "t">>, 9, 0),
      TkReg(<<"r", "0">>, 5, 1), TkEol(0)>>,
    \* add i32 r0
    <<TkInstr(<<"a", "d", "d">>, 14, 0),
      TkType(<<"i", "3", "2">>, UVM_TYPE_I32, 1),
      TkReg(<<"r", "0">>, 5, 1), TkEol(0)>>,
    \* add i32 r0, r1
    <<TkInstr(<<"a", "d", "d">>, 14, 0),
      TkType(<<"i", "3", "2">>, UVM_TYPE_I32, 1),
      TkReg(<<"r", "0">>, 5, 1), TkComma(0), TkReg(<<"r", "1">>, 6, 1),
      TkEol(0)>>,
    \* add i32 r0, r1, r2
    <<TkInstr(<<"a", "d", "d">>, 14, 0),
      TkType(<<"i", "3", "2">>, UVM_TYPE_I32, 1),
      TkReg(<<"r", "0">>, 5, 1), TkComma(0), TkReg(<<"r", "1">>, 6, 1),
      TkComma(0), TkReg(<<"r", "2">>, 7, 1), TkEol(0)>>
>>

MaxArityLines == 2

ArityProgram(body) ==
    Layout(Section(W_code, FormCodeLines[1] \o Pick(ArityLines, body))
           \o <<TkEof>>, 0, <<>>)

ArityPrograms ==
    {ArityProgram(b) : b \in SeqsUpTo(MaxArityLines, Len(ArityLines))}

InitArity == InitWith(ArityPrograms)

SpecArity == InitArity /\ [][Next]_vars

(***************************************************************************)
(* getRegisterType on every value of its uint8_t parameter.                *)
(***************************************************************************)
InitRegType ==
    /\ absMin \in AbsMinOutcomes
    /\ probe \in {[fn |-> "getRegisterType", regId |-> id, done |-> FALSE,
                   result |-> "none"] : id \in 0..255}
    /\ Tokens = Layout(<<TkEof>>, 0, <<>>)
    /\ Cursor = 0
    /\ FileNode = NewASTFileNode
    /\ VarDecls = <<>>
    /\ LabelDefs = <<>>
    /\ pc = "probe"
    /\ buildResult = [status |-> "none", result |-> FALSE, errs |-> <<>>]
    /\ tcResults = <<>>
    /\ tcErrors = <<>>

GetRegisterType ==
    /\ pc = "probe"
    /\ probe.fn = "getRegisterType"
    /\ ~probe.done
    /\ probe' = [probe EXCEPT !.done = TRUE,
                              !.result = getRegisterType(probe.regId)]
    /\ UNCHANGED <<absMin, Tokens, Cursor, FileNode, VarDecls, LabelDefs, pc,
                   buildResult, tcResults, tcErrors>>

NextRegType == GetRegisterType

SpecRegType == InitRegType /\ [][NextRegType]_vars

(***************************************************************************)
(* parseStringEscape on the string tokens made of a quote, at most         *)
(* MaxStrLen characters of StrChars and a quote.                           *)
(***************************************************************************)
MaxStrLen == 3

StrChars == <<"a", Backslash, "n", "x", "\"">>

StringTokens ==
    {<<"\"">> \o [i \in 1..Len(q) |-> StrChars[q[i]]] \o <<"\"">> :
        q \in SeqsUpTo(MaxStrLen, Len(StrChars))}

InitEscape ==
    /\ absMin \in AbsMinOutcomes
    /\ probe \in {[fn |-> "parseStringEscape", inStr |-> s, done |-> FALSE,
                   outStr |-> <<>>] : s \in StringTokens}
    /\ Tokens = Layout(<<TkEof>>, 0, <<>>)
    /\ Cursor = 0
    /\ FileNode = NewASTFileNode
    /\ VarDecls = <<>>
    /\ LabelDefs = <<>>
    /\ pc = "probe"
    /\ buildResult = [status |-> "none", result |-> FALSE, errs |-> <<>>]
    /\ tcResults = <<>>
    /\ tcErrors = <<>>

ParseStringEscape ==
    /\ pc = "probe"
    /\ probe.fn = "parseStringEscape"
    /\ ~probe.done
    /\ probe' = [probe EXCEPT !.done = TRUE,
                              !.outStr = parseStringEscape(probe.inStr)]
    /\ UNCHANGED <<absMin, Tokens, Cursor, FileNode, VarDecls, LabelDefs, pc,
                   buildResult, tcResults, tcErrors>>

NextEscape == ParseStringEscape

SpecEscape == InitEscape /\ [][NextEscape]_vars

(***************************************************************************)
(* The integer literals: a decimal literal or a 0x-prefixed literal of at  *)
(* most MaxDigits digits, without a sign or with an adjacent + or -, as    *)
(* the operand of push i64 or as the value of a declaration of type i64.   *)
(***************************************************************************)
MaxDigits == 2

RadixHexDigits == <<"0", "1", "9", "a", "F">>

RadixDecDigits == <<"0", "1", "9">>

RadixLiterals ==
    {<<"0", "x">> \o [i \in 1..Len(q) |-> RadixHexDigits[q[i]]] :
        q \in SeqsUpTo(MaxDigits, Len(RadixHexDigits)) \ {<<>>}}
    \cup {[i \in 1..Len(q) |-> RadixDecDigits[q[i]]] :
              q \in SeqsUpTo(MaxDigits, Len(RadixDecDigits)) \ {<<>>}}

\* the literal lit behind the gap, with the sign in front of it
SignedLiteral(sign, lit) ==
    CASE sign = "+" -> <<TkPlus(1), TkInt(lit, 0)>>
      [] sign = "-" -> <<TkMinus(1), TkInt(lit, 0)>>
      [] OTHER -> <<TkInt(lit, 1)>>

RadixProgram(place, sign, lit) ==
    Layout((IF place = "operand"
            THEN Section(W_code,
                     FormCodeLines[1]
                     \o <<TkInstr(<<"p", "u", "s", "h">>, 1, 0),
                          TkType(<<"i", "6", "4">>, UVM_TYPE_I64, 1)>>
                     \o SignedLiteral(sign, lit) \o <<TkEol(0)>>)
            ELSE Section(W_static,
                     <<TkIdent(<<"x">>, 0), TkColon(1),
                       TkType(<<"i", "6", "4">>, UVM_TYPE_I64, 1), TkEquals(1)>>
                     \o SignedLiteral(sign, lit) \o <<TkEol(0)>>)
                 \o Section(W_code, FormCodeLines[1] \o FormCodeLines[3]))
           \o <<TkEof>>, 0, <<>>)

RadixPrograms ==
    {RadixProgram(p, s, l) : p \in {"operand", "declaration"},
                             s \in {"", "+", "-"}, l \in RadixLiterals}

InitRadix == InitWith(RadixPrograms)

SpecRadix == InitRadix /\ [][Next]_vars

(***************************************************************************)
(* The factor of a register offset: @main and a load whose operand is      *)
(* [base +/- offset * X], with an integer, a register, a float number, an  *)
(* identifier or nothing as X in front of the closing bracket.             *)
(***************************************************************************)
FactorTokens == <<
    <<TkInt(<<"2">>, 1)>>,
    <<TkInt(<<"7", "0", "0", "0", "0">>, 1)>>,
    <<TkReg(<<"r", "2">>, 7, 1)>>,
    <<TkFloat(<<"1", ".", "5">>, 1)>>,
    <<TkIdent(<<"m", "s", "g">>, 1)>>,
    <<>>
>>

FactorRegs == <<TkReg(<<"b", "p">>, 3, 0), TkReg(<<"r", "1">>, 6, 1),
                TkReg(<<"r", "3">>, 8, 1)>>

FactorProgram(base, sign, offset, x) ==
    Layout(Section(W_code,
               FormCodeLines[1]
               \o <<TkInstr(<<"l", "o", "a", "d">>, 3, 0),
                    TkType(<<"i", "3", "2">>, UVM_TYPE_I32, 1),
                    TkLSquare(1), [FactorRegs[base] EXCEPT !.Gap = 0],
                    IF sign = "+" THEN TkPlus(1) ELSE TkMinus(1),
                    [FactorRegs[offset] EXCEPT !.Gap = 1], TkAsterisk(1)>>
               \o FactorTokens[x]
               \o <<TkRSquare(0), TkComma(0), TkReg(<<"r", "0">>, 5, 1), TkEol(0)>>)
           \o <<TkEof>>, 0, <<>>)

FactorPrograms ==
    {FactorProgram(b, s, o, x) : b \in 1..2, s \in {"+", "-"}, o \in 2..3,
                                 x \in 1..Len(FactorTokens)}

InitFactor == InitWith(FactorPrograms)

SpecFactor == InitFactor /\ [][Next]_vars

(***************************************************************************)
(* typeCheckInstrParams on every mnemonic of the table with at most        *)
(* MaxOperands operands of SigOperands, on a trie whose children are in    *)
(* the order of the table or in the opposite order.                        *)
(***************************************************************************)
MaxOperands == 3

SigOperands == <<
    NewTypeInfo(UVM_TYPE_I32),
    NewTypeInfo(UVM_TYPE_F32),
    NewRegisterId(5),
    NewRegisterId(22),
    NewRegisterOffset,
    NewIdentifier(<<"l", "o", "o", "p">>),
    NewASTInt(U64(1, 0, 0, 0), FALSE),
    NewASTFloat(strToFP(<<"1", ".", "5">>).num)
>>

SigProbe(m, q, o) ==
    [fn |-> "typeCheckInstrParams",
     instr |-> [NewInstruction(<<"i">>, m) EXCEPT
                    !.Params = [i \in 1..Len(q) |-> SigOperands[q[i]]]],
     order |-> o, done |-> FALSE, res |-> Null]

InitSig ==
    /\ absMin \in AbsMinOutcomes
    /\ \E m \in 0..(Len(INSTR_ASM_DEFS) - 1) :
       \E q \in SeqsUpTo(MaxOperands, Len(SigOperands)) :
       \E o \in {"table", "reversed"} : probe = SigProbe(m, q, o)
    /\ Tokens = Layout(<<TkEof>>, 0, <<>>)
    /\ Cursor = 0
    /\ FileNode = NewASTFileNode
    /\ VarDecls = <<>>
    /\ LabelDefs = <<>>
    /\ pc = "probe"
    /\ buildResult = [status |-> "none", result |-> FALSE, errs |-> <<>>]
    /\ tcResults = <<>>
    /\ tcErrors = <<>>

TypeCheckInstrParams ==
    /\ pc = "probe"
    /\ probe.fn = "typeCheckInstrParams"
    /\ ~probe.done
    /\ probe' = [probe EXCEPT !.done = TRUE,
                              !.res = typeCheckInstrParams(probe.instr, <<>>)]
    /\ UNCHANGED <<absMin, Tokens, Cursor, FileNode, VarDecls, LabelDefs, pc,
                   buildResult, tcResults, tcErrors>>

NextSig == TypeCheckInstrParams

SpecSig == InitSig /\ [][NextSig]_vars

(***************************************************************************)
(* The truncated files: every prefix of the token streams of TruncBases,   *)
(* followed by END_OF_FILE.                                                *)
(***************************************************************************)
TruncBases == <<
    \* static { msg, cnt }  code { @main / push i32 42 / lea [msg], r0 / exit }
    Section(W_static, VarLines[1] \o VarLines[2])
    \o Section(W_code, CodeLines[1] \o CodeLines[4] \o CodeLines[11] \o CodeLines[3]),
    \* code { @main / load i32 [bp + r1 * 2], r0 / add i32 r0, r1 }
    Section(W_code,
        CodeLines[1]
        \o <<TkInstr(<<"l", "o", "a", "d">>, 3, 0),
             TkType(<<"i", "3", "2">>, UVM_TYPE_I32, 1)>>
        \o ROOperand("imm16", "+", <<"2">>)
        \o <<TkComma(0), TkReg(<<"r", "0">>, 5, 1), TkEol(0)>>
        \o CodeLines[12]),
    \* global { cnt }  code { @main / loadf f32 -1.5, f0 / jmp main }
    Section(W_global, VarLines[2])
    \o Section(W_code, CodeLines[1] \o FormCodeLines[12] \o CodeLines[10])
>>

TruncPrograms ==
    UNION {{Layout(SubSeq(TruncBases[b], 1, n) \o <<TkEof>>, 0, <<>>) :
               n \in 0..Len(TruncBases[b])} : b \in 1..Len(TruncBases)}

InitTrunc == InitWith(TruncPrograms)

SpecTrunc == InitTrunc /\ [][Next]_vars

(***************************************************************************)
(* Properties.  The predicates below describe the AST and the tables       *)
(* directly; none of them is computed by the operators of the parser.      *)
(***************************************************************************)
Returned == pc = "checked" /\ tcResults # <<>>

LastResult == tcResults[Len(tcResults)]

ReturnedTrue == Returned /\ LastResult = "true"

CodeBody == FileNode.SecCode.Body

InstrsOf(body) == {i \in 1..Len(body) : body[i].Type = "INSTRUCTION"}

LabelNamesOf(body) ==
    {body[i].Name : i \in {k \in 1..Len(body) : body[k].Type = "LABEL_DEFINITION"}}

SecBody(sec) == IF sec = Null THEN <<>> ELSE sec.Body

DeclaredVars == SecBody(FileNode.SecStatic) \o SecBody(FileNode.SecGlobal)

DeclaredVarNames == {DeclaredVars[i].Id.Name : i \in 1..Len(DeclaredVars)}

HighLimbsAre(n, from, v) == \A i \in from..4 : n[i] = v

\* the magnitude of num, read as int64_t when isSigned, is within the bound
\* of type: 0xFF, 0xFFFF, 0xFFFFFFFF, or none for I64
MagnitudeFits(num, type, isSigned) ==
    LET negative == isSigned /\ num[4] >= 32768
        Within(k) == IF negative
                     THEN HighLimbsAre(num, k + 1, 65535) /\ \E i \in 1..k : num[i] # 0
                     ELSE HighLimbsAre(num, k + 1, 0)
    IN  CASE type = UVM_TYPE_I8 ->
               IF negative THEN HighLimbsAre(num, 2, 65535) /\ num[1] >= 65281
               ELSE HighLimbsAre(num, 2, 0) /\ num[1] <= 255
          [] type = UVM_TYPE_I16 -> Within(1)
          [] type = UVM_TYPE_I32 -> Within(2)
          [] type = UVM_TYPE_I64 -> TRUE
          [] OTHER -> FALSE

\* the register ids of ASM_REGISTERS: ip, sp, bp and r0..r15 hold integers,
\* f0..f15 hold floats
IntRegisterIds == {1, 2, 3} \cup (5..20)

FloatRegisterIds == 22..37

\* the DataType of the last TypeInfo operand in front of operand j
TypeBefore(instr, j) ==
    LET ts == {k \in 1..(j - 1) : instr.Params[k].Type = "TYPE_INFO"}
    IN  IF ts = {} THEN "none"
        ELSE instr.Params[CHOOSE k \in ts : \A m \in ts : m <= k].DataType

\* operand a is of the parameter category cat
OfCategory(cat, a) ==
    CASE cat = "INT_TYPE" -> a.Type = "TYPE_INFO" /\ a.DataType \in IntTypes
      [] cat = "FLOAT_TYPE" -> a.Type = "TYPE_INFO" /\ a.DataType \in FloatTypes
      [] cat = "INT_REG" -> a.Type = "REGISTER_ID" /\ a.Id \in IntRegisterIds
      [] cat = "FLOAT_REG" -> a.Type = "REGISTER_ID" /\ a.Id \in FloatRegisterIds
      [] cat = "REG_OFFSET" -> a.Type = "REGISTER_OFFSET"
      [] cat = "LABEL_ID" -> a.Type = "IDENTIFIER"
      [] cat \in {"INT_NUM", "SYS_INT"} -> a.Type = "INTEGER_NUMBER"
      [] cat = "FLOAT_NUM" -> a.Type = "FLOAT_NUMBER"
      [] OTHER -> FALSE

\* a literal of the category cat is in the range of the type t in front of it
LiteralInRange(cat, a, t) ==
    CASE cat = "INT_NUM" ->
             t \in IntTypes /\ MagnitudeFits(a.Num, t, a.IsSigned)
      [] cat = "FLOAT_NUM" -> t \in FloatTypes /\ checkFloatWidth(a.Num, t)
      [] OTHER -> TRUE

\* the operands of instr are those of the signature sig, literals in range
SigAccepts(sig, instr) ==
    /\ Len(sig.Params) = Len(instr.Params)
    /\ \A j \in 1..Len(sig.Params) :
           /\ OfCategory(sig.Params[j], instr.Params[j])
           /\ LiteralInRange(sig.Params[j], instr.Params[j], TypeBefore(instr, j))

MatchedSigs(instr) ==
    {k \in 1..Len(INSTR_ASM_DEFS[instr.ASMDefIndex + 1]) :
         SigAccepts(INSTR_ASM_DEFS[instr.ASMDefIndex + 1][k], instr)}

\* the category operand j of instr is matched against, "none" when no
\* signature accepts instr
CategoryAt(instr, j) ==
    IF MatchedSigs(instr) = {} THEN "none"
    ELSE INSTR_ASM_DEFS[instr.ASMDefIndex + 1][CHOOSE k \in MatchedSigs(instr) : TRUE].Params[j]

\* operand j of instr is an identifier at a LABEL_ID position of a signature
\* whose categories in front of it are those of the operands
IsLabelRef(instr, j) ==
    /\ instr.Params[j].Type = "IDENTIFIER"
    /\ \E k \in 1..Len(INSTR_ASM_DEFS[instr.ASMDefIndex + 1]) :
           LET ps == INSTR_ASM_DEFS[instr.ASMDefIndex + 1][k].Params
           IN  /\ Len(ps) >= j
               /\ ps[j] = "LABEL_ID"
               /\ \A m \in 1..(j - 1) : OfCategory(ps[m], instr.Params[m])

\* the operands of the instructions of body, as pairs of positions
OperandsOf(body) ==
    UNION {{<<i, j>> : j \in 1..Len(body[i].Params)} : i \in InstrsOf(body)}

Operand(body, ij) == body[ij[1]].Params[ij[2]]

LabelRefsOf(body) == {ij \in OperandsOf(body) : IsLabelRef(body[ij[1]], ij[2])}

VarRefsOf(body) ==
    {ij \in OperandsOf(body) :
         /\ Operand(body, ij).Type = "REGISTER_OFFSET"
         /\ Operand(body, ij).Var # Null}

IntLiteralsOf(body) ==
    {ij \in OperandsOf(body) : Operand(body, ij).Type = "INTEGER_NUMBER"}

LiteralsOf(body) ==
    {ij \in OperandsOf(body) :
         Operand(body, ij).Type \in {"INTEGER_NUMBER", "FLOAT_NUMBER"}}

NoTwoVarsShareName ==
    \A i, j \in 1..Len(DeclaredVars) :
        i # j => DeclaredVars[i].Id.Name # DeclaredVars[j].Id.Name

NoTwoLabelsShareName(body) ==
    \A i, j \in 1..Len(body) :
        (i # j /\ body[i].Type = "LABEL_DEFINITION" /\ body[j].Type = "LABEL_DEFINITION")
            => body[i].Name # body[j].Name

DefinesMain(body) == <<"m", "a", "i", "n">> \in LabelNamesOf(body)

Recorded(msg) == \E e \in 1..Len(tcErrors) : tcErrors[e].msg = msg

RecordedFor(msg, name) ==
    \E e \in 1..Len(tcErrors) :
        tcErrors[e].msg = msg /\ tcErrors[e].node.Name = name

\* C9: checkIntWidth(num, type, isSigned) is true exactly when the magnitude
\* of num is at most 0xFF for I8, 0xFFFF for I16, 0xFFFFFFFF for I32, and
\* always for I64
C9_CheckIntWidthMagnitude ==
    (probe.fn = "checkIntWidth" /\ probe.done /\ probe.type \in IntTypes)
        => probe.result = MagnitudeFits(probe.num, probe.type, probe.isSigned)

\* the i8 literal 256 is rejected
C9_Witness ==
    /\ probe.fn = "checkIntWidth" /\ probe.done /\ probe.type = UVM_TYPE_I8
    /\ probe.num = U64(256, 0, 0, 0) /\ ~probe.isSigned /\ ~probe.result

\* the RegisterOffset operand of the load of a register offset program
ROOperandNode == CodeBody[2].Params[2]

ROParsed ==
    /\ Len(CodeBody) = 2
    /\ Len(CodeBody[2].Params) >= 2
    /\ ROOperandNode.Type = "REGISTER_OFFSET"

\* the value of the digits is below 2^(16 * limbs)
ImmBelow(case, limbs) == ~case.over /\ HighLimbsAre(case.value, limbs + 1, 0)

\* C10: parseRegOffset accepts the immediate of [reg +/- imm] exactly when it
\* is below 2^32 and the one of [reg +/- reg * imm] exactly when it is below
\* 2^16, fails otherwise, and stores an accepted immediate unchanged
C10_RegOffsetImmediate ==
    (probe.fn = "parseRegOffset" /\ pc # "start") =>
        LET case == ImmCases[probe.imm]
            limbs == IF probe.form = "imm32" THEN 2 ELSE 1
        IN  /\ buildResult.status = "returned"
            /\ buildResult.result <=> ImmBelow(case, limbs)
            /\ buildResult.result <=> ROParsed
            /\ buildResult.result =>
                   ROOperandNode.Immediate = <<case.value[1], case.value[2]>>

\* the largest 32-bit immediate is accepted and stored
C10_Witness ==
    /\ probe.fn = "parseRegOffset" /\ pc # "start" /\ probe.form = "imm32"
    /\ ImmCases[probe.imm].value = MaxU32
    /\ buildResult.result /\ ROParsed
    /\ ROOperandNode.Immediate = <<65535, 65535>>

\* the conditions of a pass without error, on the AST of a first call
AllChecksPass ==
    /\ NoTwoVarsShareName
    /\ CodeBody # <<>>
    /\ DefinesMain(CodeBody)
    /\ NoTwoLabelsShareName(CodeBody)
    /\ \A i \in InstrsOf(CodeBody) : MatchedSigs(CodeBody[i]) # {}
    /\ \A ij \in LabelRefsOf(CodeBody) :
           Operand(CodeBody, ij).Name \in LabelNamesOf(CodeBody)
    /\ \A ij \in VarRefsOf(CodeBody) :
           Operand(CodeBody, ij).Var.Name \in DeclaredVarNames

TypeCheckErrors ==
    {"Variable redefiniton", "[Type Checker] Missing main label",
     "[Type Checker] Missing main entry", "Label is already defined",
     "Expected parameters found none", "Expected int type found float type",
     "Expected float type found int type", "Expected integer register",
     "Expected float register", "Integer does not fit into given type",
     "Float does not fit into given type",
     "Error no matching parameter list found for instruction",
     "Unresolved label", "Variable reference does not exist"}

LiteralTypes ==
    [ij \in LiteralsOf(CodeBody) |-> Operand(CodeBody, ij).DataType]

\* C2: a second call of typeCheck on the checked AST, with the variable and
\* label tables as the first call left them, returns what the first call
\* returned and leaves the DataType of every literal unchanged
C2_SecondCallSame ==
    [][(Len(tcResults) = 1 /\ Len(tcResults') = 2)
           => (tcResults'[2] = tcResults[1] /\ LiteralTypes' = LiteralTypes)]_vars

UnresolvedIffUndefined ==
    \A ij \in LabelRefsOf(CodeBody) :
        RecordedFor("Unresolved label", Operand(CodeBody, ij).Name)
            <=> Operand(CodeBody, ij).Name \notin LabelNamesOf(CodeBody)

AllLabelRefsDefined ==
    \A ij \in LabelRefsOf(CodeBody) :
        Operand(CodeBody, ij).Name \in LabelNamesOf(CodeBody)

\* C3 as stated: typeCheck records 'Unresolved label' for a label reference
\* if and only if no LabelDef of the code section has its name, and after a
\* call that returns true every label reference names a LabelDef
C3_UnresolvedIffUndefined ==
    Returned => (UnresolvedIffUndefined /\ (LastResult = "true" => AllLabelRefsDefined))

\* C3: when the code section defines main, typeCheck records 'Unresolved
\* label' for a label reference if and only if no LabelDef of the code
\* section has its name, wherever the definition stands; after a call that
\* returns true every label reference names a LabelDef
C3_UnresolvedIffUndefinedWithMain ==
    Returned =>
        /\ DefinesMain(CodeBody) => UnresolvedIffUndefined
        /\ LastResult = "true" => AllLabelRefsDefined

\* a reference in front of the definition of its label resolves
C3_Witness ==
    /\ ReturnedTrue /\ Len(CodeBody) = 2
    /\ CodeBody[2].Type = "LABEL_DEFINITION"
    /\ <<1, 1>> \in LabelRefsOf(CodeBody)
    /\ CodeBody[1].Params[1].Name = CodeBody[2].Name

\* C4: after typeCheck returns true the Var of every RegisterOffset operand
\* names a variable declared in the static or the global section, so a Var
\* that names no such variable makes typeCheck return false
C4_VarRefsResolve ==
    ReturnedTrue =>
        \A ij \in VarRefsOf(CodeBody) :
            Operand(CodeBody, ij).Var.Name \in DeclaredVarNames

\* typeCheck returned true on a code section that refers to a variable
C4_Witness ==
    /\ ReturnedTrue
    /\ \E ij \in VarRefsOf(CodeBody) :
           Operand(CodeBody, ij).Var.Name \in DeclaredVarNames

\* the positions of the tokens that open a section called name
SectionHeaders(name) ==
    {i \in 1..(Len(Tokens) - 1) :
         /\ Tokens[i].Type = "IDENTIFIER" /\ Tokens[i].Text = name
         /\ Tokens[i + 1].Type = "LEFT_CURLY_BRACKET"}

\* C5: when buildAST and typeCheck both succeed the file declares at most
\* one static, at most one global and exactly one code section, no two
\* variables share a name and no two labels share a name
C5_Uniqueness ==
    (buildResult.result /\ ReturnedTrue) =>
        /\ Cardinality(SectionHeaders(<<"s", "t", "a", "t", "i", "c">>)) <= 1
        /\ Cardinality(SectionHeaders(<<"g", "l", "o", "b", "a", "l">>)) <= 1
        /\ Cardinality(SectionHeaders(<<"c", "o", "d", "e">>)) = 1
        /\ NoTwoVarsShareName
        /\ NoTwoLabelsShareName(CodeBody)

\* both succeed on a file with a static, a global and a code section that
\* declares two variables and two labels
C5_Witness ==
    /\ buildResult.result /\ ReturnedTrue
    /\ Len(DeclaredVars) = 2
    /\ Cardinality(LabelNamesOf(CodeBody)) = 2

HasFlag(flags, flag) == (flags \div flag) % 2 = 1

\* the opcode the signature sig gives an instruction of the type t
IsOpcodeOf(opcode, sig, t) ==
    IF HasFlag(sig.Flags, INSTR_FLAG_TYPE_VARIANTS)
    THEN \E v \in 1..Len(sig.OpcodeVariants) :
             sig.OpcodeVariants[v].Type = t /\ sig.OpcodeVariants[v].Opcode = opcode
    ELSE opcode = sig.Opcode

\* C6: after typeCheck returns true every instruction has a non-zero Opcode,
\* the one of the signature its operands match (the variant of the type of
\* its TypeInfo when the signature has TYPE_VARIANTS, else the base opcode),
\* and the EncodingFlags of that signature
C6_OpcodeOfSignature ==
    ReturnedTrue =>
        \A i \in InstrsOf(CodeBody) :
            LET instr == CodeBody[i]
            IN  /\ instr.Opcode # 0
                /\ \E k \in MatchedSigs(instr) :
                       LET sig == INSTR_ASM_DEFS[instr.ASMDefIndex + 1][k]
                       IN  /\ IsOpcodeOf(instr.Opcode, sig,
                                         TypeBefore(instr, Len(instr.Params) + 1))
                           /\ instr.EncodingFlags = sig.Flags

\* typeCheck returned true on an instruction whose opcode is a type variant
C6_Witness ==
    /\ ReturnedTrue
    /\ \E i \in InstrsOf(CodeBody) :
           /\ HasFlag(CodeBody[i].EncodingFlags, INSTR_FLAG_TYPE_VARIANTS)
           /\ CodeBody[i].Opcode # 0

\* C7 as stated: after typeCheck returns true the DataType of every integer
\* or float literal operand is that of the TypeInfo operand in front of it
C7_LiteralTypeOfTypeInfo ==
    ReturnedTrue =>
        \A ij \in LiteralsOf(CodeBody) :
            Operand(CodeBody, ij).DataType = TypeBefore(CodeBody[ij[1]], ij[2])

\* C7: after typeCheck returns true the DataType of every literal operand
\* matched against INT_NUM or FLOAT_NUM is that of the TypeInfo operand in
\* front of it, and the literal matched against SYS_INT, which has no
\* TypeInfo in front of it, has the DataType I8
C7_LiteralTypeUnlessSysInt ==
    ReturnedTrue =>
        \A ij \in LiteralsOf(CodeBody) :
            Operand(CodeBody, ij).DataType =
                IF CategoryAt(CodeBody[ij[1]], ij[2]) = "SYS_INT"
                THEN UVM_TYPE_I8
                ELSE TypeBefore(CodeBody[ij[1]], ij[2])

\* typeCheck returned true on an integer literal behind a TypeInfo
C7_Witness ==
    /\ ReturnedTrue
    /\ \E ij \in IntLiteralsOf(CodeBody) :
           /\ CategoryAt(CodeBody[ij[1]], ij[2]) = "INT_NUM"
           /\ Operand(CodeBody, ij).DataType = TypeBefore(CodeBody[ij[1]], ij[2])

\* C8: after typeCheck returns true the magnitude of every integer literal
\* operand, the syscall id of a SYS_INT operand included, is within the
\* bound of its DataType
C8_IntLiteralsFit ==
    ReturnedTrue =>
        \A ij \in IntLiteralsOf(CodeBody) :
            MagnitudeFits(Operand(CodeBody, ij).Num, Operand(CodeBody, ij).DataType,
                          Operand(CodeBody, ij).IsSigned)

\* the instructions of body with the mnemonic add and the operand shape
\* type, register, register
AddRegReg(body) ==
    {i \in InstrsOf(body) :
         /\ body[i].ASMDefIndex = 14
         /\ Len(body[i].Params) = 3
         /\ body[i].Params[1].Type = "TYPE_INFO"
         /\ body[i].Params[2].Type = "REGISTER_ID"
         /\ body[i].Params[3].Type = "REGISTER_ID"}

AllIntegerAdd(instr) ==
    /\ instr.Params[1].DataType \in IntTypes
    /\ instr.Params[2].Id \in IntRegisterIds
    /\ instr.Params[3].Id \in IntRegisterIds

\* C11: an add with an integer type and two integer registers is matched
\* against the signature (INT_TYPE, INT_REG, INT_REG) of the table (opcode
\* 0x35, ENCODE_TYPE) whenever the instructions of the code section are
\* checked; a float type or a float register in its place leaves the
\* instruction unmatched and makes typeCheck return false
C11_AddSignature ==
    Returned =>
        \A i \in AddRegReg(CodeBody) :
            IF AllIntegerAdd(CodeBody[i])
            THEN DefinesMain(CodeBody) =>
                     /\ CodeBody[i].Opcode = 53
                     /\ CodeBody[i].EncodingFlags = INSTR_FLAG_ENCODE_TYPE
            ELSE /\ LastResult = "false"
                 /\ CodeBody[i].Opcode = 0

\* typeCheck returned false on a code section with main, a matched add of
\* integer registers and an add with a float register
C11_Witness ==
    /\ Returned /\ LastResult = "false" /\ DefinesMain(CodeBody)
    /\ \E i, j \in AddRegReg(CodeBody) :
           /\ AllIntegerAdd(CodeBody[i]) /\ CodeBody[i].Opcode = 53
           /\ CodeBody[j].Params[1].DataType \in IntTypes
           /\ CodeBody[j].Params[2].Id \in FloatRegisterIds
           /\ Recorded("Expected integer register")

BuildReturned == buildResult.status # "none"

SignTypes == {"PLUS_SIGN", "MINUS_SIGN"}

NumberTypes == {"INTEGER_NUMBER", "FLOAT_NUMBER"}

\* the sign tokens that are not immediately followed by a number
LooseSigns ==
    {k \in 1..(Len(Tokens) - 1) :
         /\ Tokens[k].Type \in SignTypes
         /\ ~(/\ Tokens[k + 1].Type \in NumberTypes
              /\ Tokens[k + 1].Index = Tokens[k].Index + 1)}

\* the diagnostic buildAST stopped with is msg at the token tok, or one at a
\* token in front of tok
StoppedAtOrBefore(msg, tok) ==
    \E e \in 1..Len(buildResult.errs) :
        LET d == buildResult.errs[e]
        IN  /\ d.tok # Null
            /\ \/ d.msg = msg /\ d.tok = tok
               \/ d.tok.Index < tok.Index

\* C12: in variable declarations and in instruction operands a sign token
\* separated from its number by a gap, or followed by a token that is not an
\* integer or float number, makes buildAST fail with 'Unexpected operator'
\* at the sign (unless it stopped at an earlier token)
C12_LooseSignRejected ==
    BuildReturned =>
        \A k \in LooseSigns :
            /\ ~buildResult.result
            /\ StoppedAtOrBefore("Unexpected operator", Tokens[k])

\* C13: buildAST returns false for every token stream without a code
\* section, also when the sections it declares are valid, and typeCheck
\* returns false for every AST whose code section has no label main
C13_CodeAndMainRequired ==
    /\ (BuildReturned /\ SectionHeaders(W_code) = {}) => ~buildResult.result
    /\ (Returned /\ ~DefinesMain(CodeBody)) => LastResult = "false"

\* buildAST returned false on a file whose only section is a valid static
\* section, with no other diagnostic than the missing code section
C13_Witness ==
    /\ BuildReturned /\ ~buildResult.result
    /\ SectionHeaders(W_code) = {}
    /\ FileNode.SecStatic # Null /\ Len(FileNode.SecStatic.Body) = 1
    /\ Len(buildResult.errs) = 1
    /\ buildResult.errs[1].msg = "Error: could not find code section"

\* line reads mnemonic, type, comma, integer, end of line
IsTypeCommaInt(toks, k, name) ==
    /\ k + 4 <= Len(toks)
    /\ toks[k].Type = "INSTRUCTION" /\ toks[k].Text = name
    /\ toks[k + 1].Type = "TYPE_INFO"
    /\ toks[k + 2].Type = "COMMA"
    /\ toks[k + 3].Type = "INTEGER_NUMBER"
    /\ toks[k + 4].Type = "EOL"

\* the token stream is  code { @main / push i32, 42 / exit }
IsPushCommaProgram ==
    /\ Len(Tokens) = 15
    /\ SectionHeaders(W_code) = {1}
    /\ Tokens[4].Type = "LABEL_DEF" /\ Tokens[4].Text = <<"@", "m", "a", "i", "n">>
    /\ IsTypeCommaInt(Tokens, 6, <<"p", "u", "s", "h">>)
    /\ Tokens[7].Tag = UVM_TYPE_I32 /\ Tokens[9].Text = <<"4", "2">>
    /\ Tokens[11].Type = "INSTRUCTION" /\ Tokens[11].Text = <<"e", "x", "i", "t">>
    /\ Tokens[13].Type = "RIGHT_CURLY_BRACKET"

\* C14: 'push i32, 42' (Instruction, TypeInfo, Comma, IntegerNumber, Eol) is
\* accepted by buildAST, and typeCheck then succeeds with push resolved to
\* the opcode 0x03, the DataType of the literal set to I32 and exit resolved
\* to 0x50
C14_PushCommaAccepted ==
    IsPushCommaProgram =>
        /\ BuildReturned => buildResult.result
        /\ (Returned /\ Len(tcResults) = 1) =>
               /\ LastResult = "true"
               /\ CodeBody[2].Opcode = 3
               /\ CodeBody[2].Params[2].DataType = UVM_TYPE_I32
               /\ CodeBody[3].Opcode = 80

LabelCount(body, name) ==
    Cardinality({i \in 1..Len(body) :
                     body[i].Type = "LABEL_DEFINITION" /\ body[i].Name = name})

\* the number of diagnostics msg of the last call that are about name
ErrorCount(msg, name) ==
    Cardinality({e \in 1..Len(tcErrors) :
                     tcErrors[e].msg = msg /\ tcErrors[e].node # Null
                         /\ tcErrors[e].node.Name = name})

DuplicateLabels(body) == {n \in LabelNamesOf(body) : LabelCount(body, n) >= 2}

RECURSIVE DecimalValue(_, _)
\* the number the decimal digits text denote, behind the value acc
DecimalValue(text, acc) ==
    IF text = <<>> THEN acc
    ELSE DecimalValue(Tail(text),
                      10 * acc + CHOOSE d \in 0..9 :
                                     <<"0", "1", "2", "3", "4", "5", "6", "7", "8", "9">>[d + 1] = text[1])

\* the positions of the integer tokens of the declarations  name : i8 = n
\* and  name : i16 = n  whose unsigned decimal value n exceeds the type
OverflowingDecls ==
    {k \in 5..Len(Tokens) :
         /\ Tokens[k].Type = "INTEGER_NUMBER"
         /\ Tokens[k - 1].Type = "EQUALS_SIGN"
         /\ Tokens[k - 2].Type = "TYPE_INFO"
         /\ Tokens[k - 3].Type = "COLON"
         /\ Tokens[k - 4].Type = "IDENTIFIER"
         /\ \/ Tokens[k - 2].Tag = UVM_TYPE_I8 /\ DecimalValue(Tokens[k].Text, 0) > 255
            \/ Tokens[k - 2].Tag = UVM_TYPE_I16 /\ DecimalValue(Tokens[k].Text, 0) > 65535}

CursorCalled == probe.fn = "cursor" /\ probe.calls > 0

\* C18: over any sequence of calls of eatToken and peekToken the cursor
\* never decreases and never exceeds the number of tokens, peekToken leaves
\* it unchanged, and with the cursor at the end both return the last token,
\* the END_OF_FILE token, and leave the cursor unchanged; before the end
\* both return the token at the cursor and eatToken moves the cursor by one
C18_CursorClamped ==
    CursorCalled =>
        /\ probe.before <= Cursor
        /\ Cursor <= Len(Tokens)
        /\ probe.last = "peekToken" => Cursor = probe.before
        /\ IF probe.before = Len(Tokens)
           THEN /\ Cursor = probe.before
                /\ probe.tok = Tokens[Len(Tokens)]
                /\ probe.tok.Type = "END_OF_FILE"
           ELSE /\ probe.tok = Tokens[probe.before + 1]
                /\ probe.last = "eatToken" => Cursor = probe.before + 1

\* eatToken was called with the cursor at the end
C18_Witness ==
    /\ CursorCalled /\ probe.last = "eatToken"
    /\ probe.before = Len(Tokens) /\ Cursor = Len(Tokens)
    /\ probe.tok.Type = "END_OF_FILE"

\* C19: typeCheck called on a file node without a code section, or with a
\* code section whose body is empty, returns false with 'Missing main label'
\* and does not fault
C19_AbsentOrEmptyCode ==
    (tcResults # <<>> /\ (FileNode.SecCode = Null \/ FileNode.SecCode.Body = <<>>)) =>
        /\ LastResult = "false"
        /\ Recorded("[Type Checker] Missing main label")

\* the position of the token that ends the body of the section opened at
\* position h: the first right curly bracket or END_OF_FILE behind it
BodyEnd(h) ==
    CHOOSE k \in (h + 2)..Len(Tokens) :
        /\ Tokens[k].Type \in {"RIGHT_CURLY_BRACKET", "END_OF_FILE"}
        /\ \A m \in (h + 2)..(k - 1) :
               Tokens[m].Type \notin {"RIGHT_CURLY_BRACKET", "END_OF_FILE"}

AllSectionHeaders ==
    SectionHeaders(W_static) \cup SectionHeaders(W_global) \cup SectionHeaders(W_code)

\* C20: buildAST returns true only if the body of every section, the code
\* section included, ends with a right curly bracket; a code section that
\* reaches END_OF_FILE without it makes buildAST return false
C20_SectionsClosed ==
    (BuildReturned /\ buildResult.result) =>
        \A h \in AllSectionHeaders : Tokens[BodyEnd(h)].Type = "RIGHT_CURLY_BRACKET"

IsStatementToken(t) == t.Type \in {"LABEL_DEF", "INSTRUCTION"}

\* the label and mnemonic tokens of the stream, in order
StatementTokens == SelectSeq(Tokens, IsStatementToken)

\* the body of the code section has one node for every label and mnemonic
\* token, in the order of the tokens
BodyFollowsStatements ==
    /\ FileNode.SecCode # Null
    /\ Len(CodeBody) = Len(StatementTokens)
    /\ \A i \in 1..Len(CodeBody) :
           IF StatementTokens[i].Type = "LABEL_DEF"
           THEN /\ CodeBody[i].Type = "LABEL_DEFINITION"
                /\ CodeBody[i].Name = Tail(StatementTokens[i].Text)
           ELSE /\ CodeBody[i].Type = "INSTRUCTION"
                /\ CodeBody[i].Name = StatementTokens[i].Text

\* the positions of the EOL tokens that follow an EOL token
BlankLineTokens ==
    {k \in 2..Len(Tokens) : Tokens[k].Type = "EOL" /\ Tokens[k - 1].Type = "EOL"}

\* C21: blank lines after a label definition, after an instruction without
\* operands and after an instruction with operands are skipped: buildAST
\* succeeds on the valid lines @main, exit and push i32 42 however many
\* blank lines follow each, and builds the AST of the lines alone
C21_BlankLinesSkipped ==
    BuildReturned => (buildResult.result /\ BodyFollowsStatements)

\* token k lies behind the header of the code section
InCodeSection(k) == \E h \in SectionHeaders(W_code) : h < k

OperandLastTypes ==
    {"TYPE_INFO", "REGISTER_DEFINITION", "INTEGER_NUMBER", "FLOAT_NUMBER",
     "IDENTIFIER", "RIGHT_SQUARE_BRACKET"}

OperandFirstTypes ==
    {"TYPE_INFO", "REGISTER_DEFINITION", "INTEGER_NUMBER", "FLOAT_NUMBER",
     "IDENTIFIER", "LEFT_SQUARE_BRACKET", "PLUS_SIGN", "MINUS_SIGN"}

\* the positions in a code section without register offsets where an
\* operand is followed by the next operand with no comma in between
MissingCommas ==
    {k \in 1..(Len(Tokens) - 1) :
         /\ InCodeSection(k)
         /\ Tokens[k].Type \in OperandLastTypes
         /\ Tokens[k + 1].Type \in OperandFirstTypes}

\* the positions of a comma that follows a comma or a mnemonic
ExtraCommas ==
    {k \in 2..Len(Tokens) :
         /\ Tokens[k].Type = "COMMA"
         /\ Tokens[k - 1].Type \in {"COMMA", "INSTRUCTION"}}

\* C22: buildAST rejects an instruction in which two consecutive operands
\* are not separated by exactly one comma
C22_OperandsCommaSeparated ==
    (BuildReturned /\ (MissingCommas # {} \/ ExtraCommas # {})) => ~buildResult.result

(***************************************************************************)
(* C23: the variable table built over the static and then the global       *)
(* section.                                                                *)
(***************************************************************************)
\* the positions of the declarations, static section first, whose name is
\* declared at an earlier position
Redeclared ==
    {i \in 1..Len(DeclaredVars) :
        \E j \in 1..(i - 1) : DeclaredVars[j].Id.Name = DeclaredVars[i].Id.Name}

RedefinitionErrors ==
    {e \in 1..Len(tcErrors) : tcErrors[e].msg = "Variable redefiniton"}

\* the declaration at position i has the 0-based index of the entry of the
\* table that carries its name
IndexesOwnEntry(i) ==
    /\ DeclaredVars[i].VarDeclIndex + 1 \in 1..Len(VarDecls)
    /\ VarDecls[DeclaredVars[i].VarDeclIndex + 1].Id.Name = DeclaredVars[i].Id.Name

\* C23: when typeCheck has returned, every declaration whose name was
\* declared earlier in the same or in the other section has a redefinition
\* error (on the first call exactly these have one), the declarations after
\* it are still processed so that the table has one entry for every declared
\* name, no two entries of the table have the same name, and every
\* declaration that was added has the index of its own entry
C23_VarTableHasNoDuplicates ==
    Returned =>
        /\ \A i \in Redeclared : \E e \in RedefinitionErrors :
               tcErrors[e].node.Id.Name = DeclaredVars[i].Id.Name
        /\ Cardinality(RedefinitionErrors) >= Cardinality(Redeclared)
        /\ (Len(tcResults) = 1 =>
               Cardinality(RedefinitionErrors) = Cardinality(Redeclared))
        /\ \A i, j \in 1..Len(VarDecls) :
               VarDecls[i].Id.Name = VarDecls[j].Id.Name => i = j
        /\ Len(VarDecls) = Cardinality(DeclaredVarNames)
        /\ \A i \in (1..Len(DeclaredVars)) \ Redeclared : IndexesOwnEntry(i)

\* msg twice in the static section, then cnt and msg in the global section:
\* two errors, cnt is added after them with index 1
C23_Witness ==
    /\ Returned
    /\ Len(tcResults) = 1
    /\ Len(DeclaredVars) = 4
    /\ Redeclared = {2, 4}
    /\ Cardinality(RedefinitionErrors) = 2
    /\ Len(VarDecls) = 2
    /\ DeclaredVars[3].VarDeclIndex = 1

(***************************************************************************)
(* C24: the operand count of an accepted instruction.                      *)
(***************************************************************************)
SignaturesOf(instr) ==
    {INSTR_ASM_DEFS[instr.ASMDefIndex + 1][k] :
        k \in 1..Len(INSTR_ASM_DEFS[instr.ASMDefIndex + 1])}

SignatureLengths(instr) == {Len(sig.Params) : sig \in SignaturesOf(instr)}

\* the operands of instr are of the first categories of sig, and sig has
\* more categories than instr has operands
IsProperPrefixOf(instr, sig) ==
    /\ Len(instr.Params) < Len(sig.Params)
    /\ \A j \in 1..Len(instr.Params) : OfCategory(sig.Params[j], instr.Params[j])

ProperPrefixes ==
    {i \in InstrsOf(CodeBody) :
        \E sig \in SignaturesOf(CodeBody[i]) : IsProperPrefixOf(CodeBody[i], sig)}

\* the instructions whose operand count is the length of no signature of
\* their mnemonic
WrongCounts ==
    {i \in InstrsOf(CodeBody) :
        Len(CodeBody[i].Params) \notin SignatureLengths(CodeBody[i])}

ArityErrors ==
    {"Error no matching parameter list found for instruction",
     "Expected parameters found none"}

\* C24 as stated: typeCheck returns true only when every instruction has as
\* many operands as a signature of its mnemonic has categories, and no
\* instruction's operands are a proper prefix of a signature
C24_ProperPrefixRejected ==
    ReturnedTrue => (WrongCounts = {} /\ ProperPrefixes = {})

\* C24: typeCheck returns true only when every instruction has as many
\* operands as a signature of its mnemonic has categories; a proper prefix
\* of a signature that is not the length of another signature, an operand
\* list longer than every signature, an operand after a mnemonic without
\* operands and no operand after a mnemonic with operands make typeCheck
\* return false with a diagnostic on an instruction
C24_OperandCountIsSignatureLength ==
    /\ ReturnedTrue => WrongCounts = {}
    /\ (Returned /\ WrongCounts # {}) =>
           /\ LastResult = "false"
           /\ \E e \in 1..Len(tcErrors) :
                  /\ tcErrors[e].msg \in ArityErrors
                  /\ tcErrors[e].node.Type = "INSTRUCTION"

\* push i32, a proper prefix of both signatures of push, has been rejected
C24_Witness ==
    /\ Returned
    /\ LastResult = "false"
    /\ \E i \in ProperPrefixes \cap WrongCounts :
           /\ CodeBody[i].ASMDefIndex = 1
           /\ Len(CodeBody[i].Params) = 1
    /\ Recorded("Error no matching parameter list found for instruction")

(***************************************************************************)
(* C25: the type of a register id.                                         *)
(***************************************************************************)
\* C25: getRegisterType returns INTEGER for the ids 1 to 20 except 4 and
\* FLOAT for every other id from 0 to 255
C25_RegisterTypeOfId ==
    (probe.fn = "getRegisterType" /\ probe.done) =>
        probe.result = IF probe.regId \in (1..20) \ {4} THEN "INTEGER" ELSE "FLOAT"

(***************************************************************************)
(* C26: the expansion of the escapes of a string token.                    *)
(***************************************************************************)
\* the byte an escape character stands for, "" for an unknown one
EscapedByte(p) ==
    CASE p = "t" -> "\t"
      [] p = "v" -> "<0B>"
      [] p = "0" -> "<00>"
      [] p = "b" -> "<08>"
      [] p = "f" -> "\f"
      [] p = "n" -> "\n"
      [] p = "r" -> "\r"
      [] p = "\"" -> "\""
      [] p = "\\" -> "\\"
      [] OTHER -> ""

RECURSIVE Expanded(_)
\* the characters s with every recognised escape replaced, up to the first
\* backslash that does not start one
Expanded(s) ==
    IF s = <<>> THEN <<>>
    ELSE IF s[1] # "\\" THEN <<s[1]>> \o Expanded(Tail(s))
    ELSE IF Len(s) >= 2 /\ EscapedByte(s[2]) # ""
    THEN <<EscapedByte(s[2])>> \o Expanded(Tail(Tail(s)))
    ELSE <<>>

Interior(s) == SubSeq(s, 2, Len(s) - 1)

\* C26: parseStringEscape outputs the characters between the quotes of the
\* token with the recognised escapes replaced by their byte, up to the
\* first unknown escape, and never more characters than there are between
\* the quotes
C26_EscapesExpanded ==
    (probe.fn = "parseStringEscape" /\ probe.done) =>
        /\ probe.outStr = Expanded(Interior(probe.inStr))
        /\ Len(probe.outStr) <= Len(probe.inStr) - 2

(***************************************************************************)
(* C27: the base an integer literal is read in.                            *)
(***************************************************************************)
\* the position of the integer token of a program with exactly one
IntegerTokens == {k \in 1..Len(Tokens) : Tokens[k].Type = "INTEGER_NUMBER"}

TheLiteral == CHOOSE k \in IntegerTokens : TRUE

HexDigitOf(c) ==
    CASE c = "0" -> 0 [] c = "1" -> 1 [] c = "9" -> 9 [] c = "a" -> 10
      [] c = "F" -> 15 [] OTHER -> 0

RECURSIVE ValueInBase(_, _, _)
ValueInBase(text, base, acc) ==
    IF text = <<>> THEN acc
    ELSE ValueInBase(Tail(text), base, base * acc + HexDigitOf(text[1]))

\* the value of the literal text: base 16 behind 0x, base 10 otherwise
LiteralValue(text) ==
    IF Len(text) >= 3 /\ text[1] = "0" /\ text[2] = "x"
    THEN ValueInBase(SubSeq(text, 3, Len(text)), 16, 0)
    ELSE ValueInBase(text, 10, 0)

LiteralIsNegative ==
    TheLiteral > 1 /\ Tokens[TheLiteral - 1].Type = "MINUS_SIGN"

\* the 64-bit value whose magnitude is v below 65536, negated when minus
NumOfMagnitude(v, minus) ==
    IF minus /\ v > 0 THEN <<65536 - v, 65535, 65535, 65535>>
    ELSE <<v, 0, 0, 0>>

\* the integer node of the operand or of the declaration
LiteralNodes ==
    {CodeBody[x[1]].Params[x[2]] :
        x \in {y \in InstrsOf(CodeBody) \X (1..3) :
                   /\ y[2] <= Len(CodeBody[y[1]].Params)
                   /\ CodeBody[y[1]].Params[y[2]].Type = "INTEGER_NUMBER"}}
    \cup {DeclaredVars[i].Val :
              i \in {d \in 1..Len(DeclaredVars) :
                         DeclaredVars[d].Val.Type = "INTEGER_NUMBER"}}

\* C27: buildAST accepts a decimal or 0x-prefixed literal with or without an
\* adjacent sign, and the number of its node has the magnitude of the
\* literal read in base 16 behind 0x and in base 10 otherwise
C27_LiteralBaseWithSign ==
    (BuildReturned /\ IntegerTokens # {}) =>
        /\ buildResult.result
        /\ \E n \in LiteralNodes :
               n.Num = NumOfMagnitude(LiteralValue(Tokens[TheLiteral].Text),
                                      LiteralIsNegative)

(***************************************************************************)
(* C28: the factor behind the asterisk of a register offset.               *)
(***************************************************************************)
Asterisks == {k \in 1..(Len(Tokens) - 1) : Tokens[k].Type = "ASTERISK"}

\* the tokens that follow an asterisk and are not an integer number
NonIntegerFactors ==
    {k + 1 : k \in {a \in Asterisks : Tokens[a + 1].Type # "INTEGER_NUMBER"}}

\* C28: buildAST ends by returning true or false, and a token behind the
\* asterisk of [reg +/- reg * X] that is not an integer number makes it
\* return false with a diagnostic on that token
C28_ReturnsAndChecksFactor ==
    (pc # "start") =>
        /\ buildResult.status = "returned"
        /\ \A k \in NonIntegerFactors :
               /\ ~buildResult.result
               /\ \E e \in 1..Len(buildResult.errs) :
                      buildResult.errs[e].tok = Tokens[k]

(***************************************************************************)
(* C29: at most one signature accepts an operand list.                     *)
(***************************************************************************)
\* two signatures of the mnemonic of instr that have the same categories in
\* front of a position and different ones at it never both accept the
\* operand of instr at that position
SiblingsDisjoint(instr) ==
    \A s1, s2 \in SignaturesOf(instr) : \A j \in 1..Len(instr.Params) :
        (/\ j <= Len(s1.Params) /\ j <= Len(s2.Params)
         /\ SubSeq(s1.Params, 1, j - 1) = SubSeq(s2.Params, 1, j - 1)
         /\ s1.Params[j] # s2.Params[j])
        => ~(/\ OfCategory(s1.Params[j], instr.Params[j])
             /\ OfCategory(s2.Params[j], instr.Params[j]))

SigChecked == probe.fn = "typeCheckInstrParams" /\ probe.done

\* the signature with the number k of the mnemonic of instr
SigNumber(instr, k) == INSTR_ASM_DEFS[instr.ASMDefIndex + 1][k]

\* C29: for every mnemonic and every operand list at most one signature
\* accepts the list, sibling categories accept disjoint operands, and the
\* walk, whatever the order of the children, accepts the list exactly when
\* a signature accepts it and attaches the flags and the opcode of that one
C29_AtMostOneSignature ==
    SigChecked =>
        /\ Cardinality(MatchedSigs(probe.instr)) <= 1
        /\ SiblingsDisjoint(probe.instr)
        /\ ~probe.res.fault
        /\ probe.res.ok <=> MatchedSigs(probe.instr) # {}
        /\ probe.res.ok =>
               \A k \in MatchedSigs(probe.instr) :
                   /\ probe.res.instr.EncodingFlags = SigNumber(probe.instr, k).Flags
                   /\ SigNumber(probe.instr, k).OpcodeVariants = <<>>
                          => probe.res.instr.Opcode = SigNumber(probe.instr, k).Opcode

\* copy i32 [..], [..] on the trie in the opposite order: of the three
\* children behind the type only REG_OFFSET takes the operand, and the
\* opcode 0x26 is attached
C29_Witness ==
    /\ SigChecked
    /\ probe.order = "reversed"
    /\ probe.instr.ASMDefIndex = 7
    /\ Len(probe.instr.Params) = 3
    /\ probe.instr.Params[2].Type = "REGISTER_OFFSET"
    /\ probe.res.ok
    /\ probe.res.instr.Opcode = 38

(***************************************************************************)
(* C30: buildAST on a file that ends inside a section.                     *)
(***************************************************************************)
TokensOfType(type) == {k \in 1..Len(Tokens) : Tokens[k].Type = type}

\* the file ends behind the left curly bracket of a section and in front of
\* its right curly bracket
EndsInsideSection ==
    Cardinality(TokensOfType("LEFT_CURLY_BRACKET"))
        > Cardinality(TokensOfType("RIGHT_CURLY_BRACKET"))

\* C30: buildAST ends on every stream that ends with END_OF_FILE, and it
\* ends by returning, false when the stream ends inside a section or inside
\* an operand list
C30_TruncatedFileFails ==
    (pc # "start") =>
        /\ buildResult.status = "returned"
        /\ EndsInsideSection => ~buildResult.result

====
